---- MODULE Spec2Model ----
(***************************************************************************)
(* Payment-webhook ingestion and billing reconciliation of dinematters.    *)
(*                                                                         *)
(*   api/webhooks.py        razorpay_webhook and the event handlers        *)
(*   api/webhook_worker.py  process_webhook_log                            *)
(*   api/payments.py        schedule_monthly_billing, process_retry_charges*)
(*                          charge_monthly_bill                            *)
(*   doctype/monthly_billing_ledger, tasks/monthly_reconciliation_onboarding*)
(*   utils/customer_helpers.py, doctype/customer                           *)
(*                                                                         *)
(* Specifications:                                                         *)
(*   Spec         the intake: signatures, duplicates, racing deliveries     *)
(*   HandlerSpec  the worker and the handlers, one webhook after the other *)
(*   LedgerSpec   the ledger-creation jobs, two runs at a time             *)
(*   ChargeSpec   charge_monthly_bill and the retry sweep with their       *)
(*                webhooks                                                 *)
(*   RechargeSpec the retries of one ledger, one call after the other      *)
(*   FeeSpec      the amounts of a ledger over small and large sales       *)
(*   SecretSpec   the webhook secret a request is verified against         *)
(*   CustomerSpec get_or_create_customer, one call after the other         *)
(*   LiveSpec     the pipeline under fair scheduling                       *)
(*                                                                         *)
(* Money is in paise where the code holds paise and in rupees where the    *)
(* code holds rupees (Order.total); int(total * 100) is total * 100 here,  *)
(* all modelled totals being whole rupees.                                 *)
(***************************************************************************)
EXTENDS Integers, Sequences, FiniteSets, TLC

VARIABLES
    siteSecret,     \* frappe.conf razorpay_webhook_secret (None when not configured)
    siteKeys,       \* TRUE when the site-level Razorpay API keys are configured
    restaurants,    \* Restaurant documents
    orders,         \* Order documents
    revLedgers,     \* Monthly Revenue Ledger of the current month, per restaurant
    billLedgers,    \* Monthly Billing Ledger rows, in insertion order
    attempts,       \* Tokenization Attempt documents
    logs,           \* Razorpay Webhook Log rows, in insertion order
    jobs,           \* jobs handed to frappe.enqueue, in enqueue order
    deliveries,     \* requests inside razorpay_webhook
    creators,       \* runs of the two ledger-creation jobs
    charges,        \* calls of charge_monthly_bill and runs of process_retry_charges
    gateway,        \* charge requests the payment gateway has received, in order
    now,            \* datetime.now(), in minutes
    lastRefund,     \* payload of the refund the handler applied last, None once
                    \* another handler has run since
    raced,          \* event ids of which two deliveries were in razorpay_webhook at once
    customers,      \* Customer documents, in insertion order
    lastCall        \* the last call of get_or_create_customer and what it returned

vars == <<siteSecret, siteKeys, restaurants, orders, revLedgers, billLedgers,
          attempts, logs, jobs, deliveries, creators, charges, gateway, now,
          lastRefund, raced, customers, lastCall>>

customerVars == <<customers, lastCall>>

dbVars == <<restaurants, orders, revLedgers, billLedgers, attempts>>

billingVars == <<creators, charges, gateway, now>>

None == "none"

----------------------------------------------------------------------------
(* Bounds of the model.                                                    *)

MaxDeliveries == 2      \* requests that may be inside razorpay_webhook at once
MaxLogs == 2            \* Razorpay Webhook Log rows
MaxLedgers == 2         \* Monthly Billing Ledger rows
MaxCharges == 3         \* charge requests sent to the gateway
MaxRetry == 12          \* retry_count is not raised beyond this
MaxJobs == MaxLogs      \* enqueued jobs

Deliveries == 1..MaxDeliveries
Creators == 1..2
Charges == 1..2

----------------------------------------------------------------------------
(* Documents the model starts with.                                        *)

RestaurantIds == {"R1"}
OrderIds == {"O1"}
AttemptIds == {"TA1"}
CurrentMonth == "2026-02"
PreviousMonth == "2026-01"

SiteSecretValue == "S0"
MerchantSecretValue == "S1"
SecondSecretValue == "S2"
ForeignSecretValue == "SX"

----------------------------------------------------------------------------
(* Webhook bodies.  A body is the parsed JSON of the request; the fields   *)
(* are the ones razorpay_webhook and the handlers read:                    *)
(*   event_id, event, account_id             top level                     *)
(*   payment_id, order_id, amount            payload.payment.entity        *)
(*     (payload.refund.entity.payment_id / amount for refund.processed)    *)
(*   notes_restaurant_id, notes_type, notes_attempt_id, notes_order_id     *)
(*                                           payload.payment.entity.notes  *)
(*   customer_id, token                      payload.payment.entity        *)
(*   link_id                                 payload.payment_link.entity.id*)

BasePayload ==
    [event_id |-> None, event |-> None, account_id |-> None,
     payment_id |-> None, order_id |-> None, amount |-> 0,
     notes_restaurant_id |-> None, notes_type |-> None,
     notes_attempt_id |-> None, notes_order_id |-> None, customer_id |-> None, token |-> None,
     link_id |-> None]

\* payment.captured of the customer payment of order O1; the notes are the
\* ones create_payment_order attaches to the gateway order
CapturedOrder ==
    [BasePayload EXCEPT !.event = "payment.captured", !.order_id = "ro1",
                        !.payment_id = "pay1", !.amount = 500,
                        !.notes_restaurant_id = "R1", !.notes_order_id = "O1"]

\* payment.captured of the tokenization order of attempt TA1; the notes are
\* the ones create_tokenization_order attaches
CapturedToken ==
    [BasePayload EXCEPT !.event = "payment.captured", !.order_id = "rot1",
                        !.payment_id = "pay3", !.amount = 100,
                        !.notes_restaurant_id = "R1", !.notes_type = "tokenization",
                        !.notes_attempt_id = "TA1", !.customer_id = "cust1",
                        !.token = "tok1"]

\* the same payment of a gateway order whose notes name the attempt and the
\* type but no restaurant
CapturedTokenBare == [CapturedToken EXCEPT !.notes_restaurant_id = None]

\* a second captured payment of the same gateway order, made with another
\* card: another payment id, customer and token
CapturedTokenAgain ==
    [CapturedToken EXCEPT !.payment_id = "pay7", !.customer_id = "cust2",
                          !.token = "tok2"]

\* payment.captured / payment.failed of a recurring charge of a billing ledger
CapturedCharge ==
    [BasePayload EXCEPT !.event = "payment.captured", !.payment_id = "pay2",
                        !.amount = 99900]

FailedCharge ==
    [BasePayload EXCEPT !.event = "payment.failed", !.payment_id = "pay2",
                        !.amount = 99900]

\* payment.failed of a customer payment of order O1
FailedOrder ==
    [BasePayload EXCEPT !.event = "payment.failed", !.order_id = "ro1",
                        !.payment_id = "pay1", !.amount = 500,
                        !.notes_restaurant_id = "R1", !.notes_order_id = "O1"]

RefundFull ==
    [BasePayload EXCEPT !.event = "refund.processed", !.payment_id = "pay1",
                        !.amount = 500]

RefundPartial ==
    [BasePayload EXCEPT !.event = "refund.processed", !.payment_id = "pay1",
                        !.amount = 200]

LinkPaid ==
    [BasePayload EXCEPT !.event = "payment_link.paid", !.link_id = "pl1"]

Unhandled ==
    [BasePayload EXCEPT !.event = "order.paid", !.order_id = "ro1"]

Entities ==
    {CapturedOrder, CapturedCharge, CapturedToken, CapturedTokenBare,
     CapturedTokenAgain,
     FailedCharge, FailedOrder,
     RefundFull, RefundPartial, LinkPaid, Unhandled}

EventIds == {None, "E1", "E2"}

WithEventIds(entities, ids) ==
    {[e EXCEPT !.event_id = id] : e \in entities, id \in ids}

HandledEvents ==
    {"payment.captured", "refund.processed", "payment_link.paid", "payment.failed"}

----------------------------------------------------------------------------
(* Signature verification.                                                 *)

\* hmac.new(secret, body, sha256).hexdigest(): a value that is determined
\* by the key and the body and differs when either differs
Hmac(secret, body) == <<"hmac-sha256", secret, body>>

\* request.headers.get("X-Razorpay-Signature", "") without the header
NoSignature == <<>>

\* the body an attacker started from when the request body was tampered with
TamperSource(body) == [body EXCEPT !.amount = body.amount + 1]

\* the X-Razorpay-Signature values a request for body may carry: signed
\* with the site secret, a merchant secret, a secret unknown to the site,
\* the signature of the body before tampering, or no header at all ("")
SignaturesFor(body) ==
    {Hmac(SiteSecretValue, body), Hmac(MerchantSecretValue, body),
     Hmac(ForeignSecretValue, body),
     Hmac(SiteSecretValue, TamperSource(body)), NoSignature}

\* (a verifier that accepts every signature)
verify_razorpay_signature_Any(body, signature, webhook_secret) == "ok"

\* result: "throw" (secret not configured), "ok" (True) or "bad" (False)
verify_razorpay_signature(body, signature, webhook_secret) ==
    IF webhook_secret = None
    THEN "throw"
    ELSE IF Hmac(webhook_secret, body) = signature THEN "ok" ELSE "bad"

\* razorpay_webhook lines 44-69: the secret the request is verified against
MerchantSecretByAccount(body) ==
    IF body.account_id = None
    THEN None
    ELSE LET rs == {r \in DOMAIN restaurants :
                        restaurants[r].razorpay_account_id = body.account_id}
         IN  IF rs = {} THEN None
             ELSE restaurants[CHOOSE r \in rs : TRUE].razorpay_webhook_secret

\* (a lookup that asks the restaurant of the notes first)
MerchantSecret_NotesFirst(body) ==
    IF /\ body.notes_restaurant_id \in DOMAIN restaurants
       /\ restaurants[body.notes_restaurant_id].razorpay_webhook_secret # None
    THEN restaurants[body.notes_restaurant_id].razorpay_webhook_secret
    ELSE MerchantSecretByAccount(body)

MerchantSecret(body) ==
    LET byAccount == MerchantSecretByAccount(body)
    IN  IF byAccount # None
        THEN byAccount
        ELSE IF body.notes_restaurant_id \in DOMAIN restaurants
             THEN restaurants[body.notes_restaurant_id].razorpay_webhook_secret
             ELSE None

ResolveSecret(body) ==
    IF MerchantSecret(body) # None THEN MerchantSecret(body) ELSE siteSecret

----------------------------------------------------------------------------
(* Initial documents.  Restaurants, Orders and ledgers are created and     *)
(* edited through the CRUD layer (api/documents.py create_document and     *)
(* update_document, api/payments.py create_payment_order / verify_payment, *)
(* tasks/monthly_reconciliation.py), so the pipeline meets them in any of  *)
(* the shapes below.                                                       *)

InitRestaurants ==
    {[r \in RestaurantIds |->
        [razorpay_account_id |-> "acc1",
         razorpay_webhook_secret |-> sec,
         razorpay_customer_id |-> tok[1],
         razorpay_token_id |-> tok[2],
         mandate_status |-> IF tok[2] = None THEN "none" ELSE "active",
         billing_status |-> "active",
         is_active |-> TRUE,
         onboarding_today |-> TRUE,
         monthly_minimum |-> 999]] :
        sec \in {None, MerchantSecretValue},
        tok \in {<<None, None>>, <<"cust1", "tok1">>}}

\* Order O1 of create_payment_order: total 5 rupees, platform fee 1.5% of
\* 500 paise; verify_payment has or has not recorded the payment id
InitOrders ==
    {os \in {[o \in OrderIds |->
        [restaurant |-> "R1", razorpay_order_id |-> "ro1",
         razorpay_payment_id |-> st[1], transaction_id |-> st[1],
         total |-> tot, platform_fee_amount |-> 7,
         payment_status |-> st[2], status |-> st[3]]] :
        tot \in {5, 0},
        st \in {<<None, "pending", "pending">>,
                <<"pay1", "pending", "pending">>,
                <<"pay1", "completed", "confirmed">>}} :
        \A o \in OrderIds : os[o].total = 0 => os[o].payment_status = "completed"}

NoRevLedger ==
    [exists |-> FALSE, total_gmv |-> 0, total_platform_fee |-> 0,
     minimum_due |-> 0, status |-> "pending", payment_link_id |-> None]

InitRevLedgers ==
    {[r \in RestaurantIds |-> l] :
        l \in {NoRevLedger,
               [exists |-> TRUE, total_gmv |-> 800, total_platform_fee |-> 12,
                minimum_due |-> 99888, status |-> "pending",
                payment_link_id |-> "pl1"]}}

\* Tokenization Attempt TA1 of create_tokenization_order
InitAttempts ==
    {[a \in AttemptIds |->
        [exists |-> TRUE, restaurant |-> "R1", razorpay_order_id |-> "rot1",
         razorpay_payment_id |-> None, customer_id |-> None, token_id |-> None,
         status |-> "created", processed |-> 0]]}

NewBillLedger(r, month, gmv, fee, final) ==
    [restaurant |-> r, billing_month |-> month, total_gmv |-> gmv,
     calculated_fee |-> fee, final_amount |-> final,
     payment_status |-> "pending", razorpay_payment_id |-> None,
     retry_count |-> 0, next_retry_at |-> 0]

IdleDelivery ==
    [pc |-> "idle", body |-> BasePayload, signature |-> NoSignature,
     result |-> None, inserted |-> FALSE, enqueued |-> FALSE, log |-> 0]

\* a run of a ledger-creation job: doc is the ledger it is about to insert
IdleCreator ==
    [pc |-> "idle", job |-> None, todo |-> <<>>, raced |-> FALSE,
     created |-> 0, logged_error |-> FALSE, result |-> None,
     doc |-> NewBillLedger(None, None, 0, 0, 0)]

\* a call of charge_monthly_bill, possibly inside process_retry_charges:
\* todo are the ledgers the sweep has still to charge, ledger the row being
\* charged and retry_count the value the call loaded from it
IdleCharge ==
    [pc |-> "idle", sweep |-> FALSE, todo |-> <<>>, ledger |-> 0,
     retry_count |-> 0, request |-> 0, result |-> None]

NoResult == [status |-> "none", exc |-> FALSE, message |-> None]

----------------------------------------------------------------------------
(* Document hooks.                                                         *)

Max(a, b) == IF a >= b THEN a ELSE b
Min(a, b) == IF a <= b THEN a ELSE b

MinAmount == 99900      \* min_amt = 999 * 100
MaxAmount == 399900     \* max_amt = 3999 * 100

\* int(math.floor(total_gmv * 0.01))
CalculatedFee(total_gmv) == total_gmv \div 100

\* (a final amount without minimum or maximum)
FinalAmount_Unclamped(total_gmv) == CalculatedFee(total_gmv)

FinalAmount(total_gmv) == Max(MinAmount, Min(CalculatedFee(total_gmv), MaxAmount))

\* MonthlyBillingLedger.before_save
BillBeforeSave(l) ==
    [l EXCEPT !.calculated_fee = CalculatedFee(l.total_gmv),
              !.final_amount = FinalAmount(l.total_gmv)]

\* MonthlyBillingLedger.validate of row i: TRUE when it throws, another row
\* of the same restaurant and month being stored
BillValidateThrows(rows, i, l) ==
    \E k \in 1..Len(rows) :
        /\ k # i
        /\ rows[k].restaurant = l.restaurant
        /\ rows[k].billing_month = l.billing_month

\* MonthlyRevenueLedger.before_save
RevBeforeSave(l, restaurant) ==
    LET monthly_minimum_paise == restaurant.monthly_minimum * 100
    IN  IF l.total_platform_fee # 0
        THEN IF l.total_platform_fee < monthly_minimum_paise
             THEN [l EXCEPT !.minimum_due =
                                monthly_minimum_paise - l.total_platform_fee]
             ELSE [l EXCEPT !.minimum_due = 0, !.status = "paid"]
        ELSE l

----------------------------------------------------------------------------
(* Event handlers of api/webhooks.py.  A handler is given the payload and  *)
(* yields its return value and the documents as it leaves them.            *)

Outcome(res, rest, ord, rev, bill) ==
    [result |-> res, restaurants |-> rest, orders |-> ord,
     revLedgers |-> rev, billLedgers |-> bill, attempts |-> attempts]

Unchanged(res) == Outcome(res, restaurants, orders, revLedgers, billLedgers)

Success(msg) == [status |-> "success", exc |-> FALSE, message |-> msg]
Error(msg) == [status |-> "error", exc |-> FALSE, message |-> msg]
Raised(msg) == [status |-> "error", exc |-> TRUE, message |-> msg]

\* frappe.get_all("Monthly Billing Ledger", filters={"razorpay_payment_id": id})
LedgersByPayment(payment_id) ==
    {i \in 1..Len(billLedgers) : billLedgers[i].razorpay_payment_id = payment_id}

First(S) == CHOOSE i \in S : \A k \in S : i <= k

\* mb.payment_status = status; mb.save(), and when save throws the
\* frappe.db.set_value fallback that writes the one field
SetLedgerStatus(i, status) ==
    LET mb == [billLedgers[i] EXCEPT !.payment_status = status]
    IN  IF BillValidateThrows(billLedgers, i, mb)
        THEN [billLedgers EXCEPT ![i] = mb]
        ELSE [billLedgers EXCEPT ![i] = BillBeforeSave(mb)]

\* (a handler that takes a new token on a restaurant that has one for a
\* mandate still to be confirmed)
PersistToken_Reconfirms(p) ==
    IF p.notes_restaurant_id \in RestaurantIds
    THEN LET r == p.notes_restaurant_id
             withCustomer ==
                 IF p.customer_id # None
                 THEN [restaurants EXCEPT ![r].razorpay_customer_id = p.customer_id]
                 ELSE restaurants
         IN  IF p.token # None
             THEN [withCustomer EXCEPT
                      ![r].razorpay_token_id = p.token,
                      ![r].mandate_status =
                          IF restaurants[r].razorpay_token_id \in {None, p.token}
                          THEN "active" ELSE "pending"]
             ELSE withCustomer
    ELSE restaurants

\* lines 151-158: token and customer of a tokenization payment go to the
\* Restaurant named in the notes
PersistToken(p) ==
    IF p.notes_restaurant_id \in RestaurantIds
    THEN LET r == p.notes_restaurant_id
             withCustomer ==
                 IF p.customer_id # None
                 THEN [restaurants EXCEPT ![r].razorpay_customer_id = p.customer_id]
                 ELSE restaurants
         IN  IF p.token # None
             THEN [withCustomer EXCEPT ![r].razorpay_token_id = p.token,
                                       ![r].mandate_status = "active"]
             ELSE withCustomer
    ELSE restaurants

\* lines 137-146: the Tokenization Attempt the payment belongs to, None
\* when there is none
FindAttempt(p) ==
    LET attempt_id == IF p.notes_attempt_id # None
                      THEN p.notes_attempt_id ELSE p.notes_order_id
        rows == {a \in AttemptIds : /\ attempts[a].exists
                                    /\ attempts[a].razorpay_order_id = p.order_id}
    IN  IF attempt_id \in AttemptIds /\ attempts[attempt_id].exists
        THEN attempt_id
        ELSE IF rows # {} THEN CHOOSE a \in rows : TRUE ELSE None

\* lines 160-172: the attempt is updated from the payment
RecordCapture(p) ==
    LET a == FindAttempt(p)
    IN  IF a = None
        THEN attempts
        ELSE [attempts EXCEPT
                ![a].razorpay_payment_id = p.payment_id,
                ![a].customer_id =
                    IF p.customer_id # None THEN p.customer_id ELSE @,
                ![a].token_id = IF p.token # None THEN p.token ELSE @,
                ![a].status = "captured",
                ![a].processed = 1]

\* handle_payment_captured.  The branch that looks the Order up by
\* razorpay_order_id (lines 198-315) follows an if/else whose both arms
\* return (lines 180-196), so it is never run.
handle_payment_captured(p) ==
    IF p.notes_type = "tokenization"
       \/ (p.order_id # None /\ p.notes_attempt_id # None)
    THEN [Outcome(Success("Tokenization recorded"), PersistToken(p), orders,
                  revLedgers, billLedgers) EXCEPT !.attempts = RecordCapture(p)]
    ELSE LET ledgers == LedgersByPayment(p.payment_id)
         IN  IF ledgers # {}
             THEN Outcome(Success("ledger_paid"), restaurants, orders,
                          revLedgers, SetLedgerStatus(First(ledgers), "paid"))
             ELSE Unchanged(Error("No order_id in payment data"))

\* (a handler that also puts the Order of the failed payment back to pending)
handle_payment_failed_ResetsOrder(p) ==
    LET ledgers == LedgersByPayment(p.payment_id)
        reset == [o \in OrderIds |->
                    IF orders[o].razorpay_payment_id = p.payment_id
                    THEN [orders[o] EXCEPT !.payment_status = "pending"]
                    ELSE orders[o]]
    IN  IF ledgers # {}
        THEN LET i == First(ledgers)
                 r == billLedgers[i].restaurant
             IN  Outcome(Success("payment_failed"),
                         IF r \in RestaurantIds
                         THEN [restaurants EXCEPT ![r].billing_status = "overdue"]
                         ELSE restaurants,
                         reset, revLedgers, SetLedgerStatus(i, "failed"))
        ELSE Outcome(Success("payment_failed"), restaurants, reset, revLedgers,
                     billLedgers)

\* handle_payment_failed
handle_payment_failed(p) ==
    LET ledgers == LedgersByPayment(p.payment_id)
    IN  IF ledgers # {}
        THEN LET i == First(ledgers)
                 r == billLedgers[i].restaurant
             IN  Outcome(Success("payment_failed"),
                         IF r \in RestaurantIds
                         THEN [restaurants EXCEPT ![r].billing_status = "overdue"]
                         ELSE restaurants,
                         orders, revLedgers, SetLedgerStatus(i, "failed"))
        ELSE Unchanged(Success("payment_failed"))

\* handle_payment_link_paid
handle_payment_link_paid(p) ==
    LET ledgers == {r \in RestaurantIds :
                        /\ revLedgers[r].exists
                        /\ revLedgers[r].payment_link_id = p.link_id}
    IN  IF ledgers # {}
        THEN LET r == CHOOSE x \in ledgers : TRUE
                 ledger == [revLedgers[r] EXCEPT !.status = "paid"]
             IN  Outcome(Success("payment_link_paid"), restaurants, orders,
                         [revLedgers EXCEPT ![r] = RevBeforeSave(ledger, restaurants[r])],
                         billLedgers)
        ELSE Unchanged(Success("payment_link_paid"))

\* (a reversal that subtracts without the floor at 0)
reverse_monthly_ledger_Unfloored(restaurant_id, refund_amount, platform_fee_refund) ==
    IF restaurant_id \in RestaurantIds /\ revLedgers[restaurant_id].exists
    THEN LET l == revLedgers[restaurant_id]
             ledger == [l EXCEPT
                 !.total_gmv = l.total_gmv - refund_amount,
                 !.total_platform_fee = l.total_platform_fee - platform_fee_refund]
         IN  [revLedgers EXCEPT ![restaurant_id] =
                 RevBeforeSave(ledger, restaurants[restaurant_id])]
    ELSE revLedgers

\* reverse_monthly_ledger: the revenue ledgers after the reversal
reverse_monthly_ledger(restaurant_id, refund_amount, platform_fee_refund) ==
    IF restaurant_id \in RestaurantIds /\ revLedgers[restaurant_id].exists
    THEN LET l == revLedgers[restaurant_id]
             ledger == [l EXCEPT
                 !.total_gmv = Max(0, l.total_gmv - refund_amount),
                 !.total_platform_fee =
                     Max(0, l.total_platform_fee - platform_fee_refund)]
         IN  [revLedgers EXCEPT ![restaurant_id] =
                 RevBeforeSave(ledger, restaurants[restaurant_id])]
    ELSE revLedgers

\* update_monthly_ledger: the revenue ledgers after an order was added
update_monthly_ledger(restaurant_id, order_total, platform_fee_amount) ==
    IF restaurant_id \in RestaurantIds
    THEN LET l == IF revLedgers[restaurant_id].exists
                  THEN revLedgers[restaurant_id]
                  ELSE [NoRevLedger EXCEPT !.exists = TRUE]
             ledger == [l EXCEPT
                 !.total_gmv = l.total_gmv + order_total * 100,
                 !.total_platform_fee = l.total_platform_fee + platform_fee_amount]
         IN  [revLedgers EXCEPT ![restaurant_id] =
                 RevBeforeSave(ledger, restaurants[restaurant_id])]
    ELSE revLedgers

\* (a handler that cancels the order on every refund)
handle_refund_processed_AlwaysCancels(p, saveFails) ==
    LET found == {o \in OrderIds : orders[o].razorpay_payment_id = p.payment_id}
    IN  IF found # {}
        THEN LET o == CHOOSE x \in found : TRUE
                 order == orders[o]
                 total_amount_paise == order.total * 100
             IN  IF total_amount_paise = 0
                 THEN Unchanged(Raised("division by zero"))
                 ELSE IF saveFails
                 THEN Unchanged(Raised("order.save"))
                 ELSE LET platform_fee_refund ==
                              (order.platform_fee_amount * p.amount)
                                  \div total_amount_paise
                          saved ==
                              IF p.amount = total_amount_paise
                              THEN [order EXCEPT !.payment_status = "refunded",
                                                 !.status = "cancelled"]
                              ELSE [order EXCEPT !.payment_status = "partially_refunded",
                                                 !.status = "cancelled"]
                      IN  Outcome(Success("refund"), restaurants,
                                  [orders EXCEPT ![o] = saved],
                                  reverse_monthly_ledger(order.restaurant, p.amount,
                                                         platform_fee_refund),
                                  billLedgers)
        ELSE Unchanged(Success("refund"))

\* handle_refund_processed; saveFails: order.save() throws
handle_refund_processed(p, saveFails) ==
    LET found == {o \in OrderIds : orders[o].razorpay_payment_id = p.payment_id}
    IN  IF found # {}
        THEN LET o == CHOOSE x \in found : TRUE
                 order == orders[o]
                 total_amount_paise == order.total * 100
             IN  IF total_amount_paise = 0
                 THEN Unchanged(Raised("division by zero"))
                 ELSE IF saveFails
                 THEN Unchanged(Raised("order.save"))
                 ELSE LET platform_fee_refund ==
                              (order.platform_fee_amount * p.amount)
                                  \div total_amount_paise
                          saved ==
                              IF p.amount = total_amount_paise
                              THEN [order EXCEPT !.payment_status = "refunded",
                                                 !.status = "cancelled"]
                              ELSE [order EXCEPT !.payment_status = "partially_refunded"]
                      IN  Outcome(Success("refund"), restaurants,
                                  [orders EXCEPT ![o] = saved],
                                  reverse_monthly_ledger(order.restaurant, p.amount,
                                                         platform_fee_refund),
                                  billLedgers)
        ELSE Unchanged(Success("refund"))

----------------------------------------------------------------------------
(* razorpay_webhook, a request d going through it in three steps: the      *)
(* verification and the duplicate check, the insert of the log row, the    *)
(* enqueue.                                                                *)

\* the unique index on Razorpay Webhook Log.event_id; the empty event id is
\* stored as NULL, which a unique index does not compare
EventIdUnique == TRUE

LogsOf(event_id) == {i \in 1..Len(logs) : logs[i].event_id = event_id}

InsertThrows(event_id) ==
    EventIdUnique /\ event_id # None /\ LogsOf(event_id) # {}

\* (an intake that never finds the event logged)
IsDuplicate_Never(event_id) == FALSE

\* line 85: the event was logged before
IsDuplicate(event_id) == event_id # None /\ LogsOf(event_id) # {}

InFlight(pcs) == Cardinality({d \in Deliveries : deliveries[d].pc \in pcs})

\* lines 30-87; requests: the <<body, signature>> pairs that may arrive
Receive(d, requests) ==
    /\ deliveries[d].pc = "idle"
    /\ \E request_data \in requests :
        LET body == request_data[1]
            signature == request_data[2]
            webhook_secret == ResolveSecret(body)
            request == [IdleDelivery EXCEPT !.body = body, !.signature = signature]
            others == {x \in Deliveries \ {d} :
                          /\ deliveries[x].pc \in {"insert", "enqueue"}
                          /\ deliveries[x].body.event_id = body.event_id}
        IN  IF verify_razorpay_signature(body, signature, webhook_secret) # "ok"
            THEN /\ deliveries' = [deliveries EXCEPT ![d] =
                        [request EXCEPT !.pc = "done", !.result = "rejected"]]
                 /\ raced' = raced
            ELSE IF IsDuplicate(body.event_id)
            THEN /\ deliveries' = [deliveries EXCEPT ![d] =
                        [request EXCEPT !.pc = "done", !.result = "duplicate"]]
                 /\ raced' = IF others # {} THEN raced \cup {body.event_id} ELSE raced
            ELSE /\ Len(logs) + InFlight({"insert"}) < MaxLogs
                 /\ Len(jobs) + InFlight({"insert", "enqueue"}) < MaxJobs
                 /\ deliveries' = [deliveries EXCEPT ![d] =
                        [request EXCEPT !.pc = "insert"]]
                 /\ raced' = IF others # {} THEN raced \cup {body.event_id} ELSE raced
    /\ UNCHANGED <<customerVars, siteSecret, siteKeys, dbVars, logs, jobs, billingVars,
                   lastRefund>>

\* lines 89-100
Insert(d) ==
    /\ deliveries[d].pc = "insert"
    /\ LET body == deliveries[d].body
       IN  IF InsertThrows(body.event_id)
           THEN /\ deliveries' = [deliveries EXCEPT ![d].pc = "enqueue"]
                /\ logs' = logs
           ELSE /\ logs' = Append(logs,
                        [event_id |-> body.event_id, event_type |-> body.event,
                         payload |-> body, processed |-> FALSE,
                         processing_result |-> NoResult])
                /\ deliveries' = [deliveries EXCEPT ![d].pc = "enqueue",
                                                    ![d].inserted = TRUE,
                                                    ![d].log = Len(logs) + 1]
    /\ UNCHANGED <<customerVars, siteSecret, siteKeys, dbVars, jobs, billingVars,
                   lastRefund, raced>>

NewJob(d) ==
    [log |-> deliveries[d].log, event_id |-> deliveries[d].body.event_id,
     pc |-> "queued", invoked |-> FALSE, result |-> NoResult]

\* lines 102-115 when frappe.enqueue succeeds
Enqueue(d) ==
    /\ deliveries[d].pc = "enqueue"
    /\ jobs' = Append(jobs, NewJob(d))
    /\ deliveries' = [deliveries EXCEPT ![d].pc = "done",
                                        ![d].enqueued = TRUE,
                                        ![d].result = "received"]
    /\ UNCHANGED <<customerVars, siteSecret, siteKeys, dbVars, logs, billingVars,
                   lastRefund, raced>>

\* lines 102-115 when frappe.enqueue throws (lines 110-112)
EnqueueFails(d) ==
    /\ deliveries[d].pc = "enqueue"
    /\ deliveries' = [deliveries EXCEPT ![d].pc = "done",
                                        ![d].result = "received"]
    /\ UNCHANGED <<customerVars, siteSecret, siteKeys, dbVars, logs, jobs, billingVars,
                   lastRefund, raced>>

----------------------------------------------------------------------------
(* process_webhook_log, a job j running it in two steps: up to the return  *)
(* of the handler, then the marking of the log row.                        *)

\* lines 38-53
Dispatch(p, saveFails) ==
    IF p.event = "payment.captured" THEN handle_payment_captured(p)
    ELSE IF p.event = "refund.processed" THEN handle_refund_processed(p, saveFails)
    ELSE IF p.event = "payment_link.paid" THEN handle_payment_link_paid(p)
    ELSE IF p.event = "payment.failed" THEN handle_payment_failed(p)
    ELSE Unchanged(NoResult)

\* (the worker without the check of the processed flag)
AlreadyProcessed_Never(row) == FALSE

\* lines 24-26
AlreadyProcessed(row) == row.processed

\* lines 18-53
WorkerRun(j) ==
    /\ j \in 1..Len(jobs)
    /\ jobs[j].pc = "queued"
    /\ IF jobs[j].log = 0 \/ AlreadyProcessed(logs[jobs[j].log])
       THEN /\ jobs' = [jobs EXCEPT ![j].pc = "done"]
            /\ UNCHANGED <<dbVars, lastRefund>>
       ELSE \E saveFails \in BOOLEAN :
            LET p == logs[jobs[j].log].payload
                out == Dispatch(p, saveFails)
            IN  /\ (saveFails => p.event = "refund.processed")
                /\ jobs' = [jobs EXCEPT ![j].pc = "handled",
                                        ![j].invoked = (p.event \in HandledEvents),
                                        ![j].result = out.result]
                /\ restaurants' = out.restaurants
                /\ orders' = out.orders
                /\ revLedgers' = out.revLedgers
                /\ billLedgers' = out.billLedgers
                /\ attempts' = out.attempts
                /\ lastRefund' =
                     IF p.event = "refund.processed" /\ out.result.status = "success"
                     THEN p
                     ELSE IF p.event \in HandledEvents THEN BasePayload
                     ELSE lastRefund
    /\ UNCHANGED <<customerVars, siteSecret, siteKeys, logs, deliveries, billingVars, raced>>

\* lines 55-65
WorkerMark(j) ==
    /\ j \in 1..Len(jobs)
    /\ jobs[j].pc = "handled"
    /\ logs' = [logs EXCEPT ![jobs[j].log].processed = TRUE,
                            ![jobs[j].log].processing_result = jobs[j].result]
    /\ jobs' = [jobs EXCEPT ![j].pc = "done", ![j].result = NoResult]
    /\ UNCHANGED <<customerVars, siteSecret, siteKeys, dbVars, deliveries, billingVars,
                   lastRefund, raced>>

\* the worker process dies while it runs job j
WorkerCrash(j) ==
    /\ j \in 1..Len(jobs)
    /\ jobs[j].pc \in {"queued", "handled"}
    /\ jobs' = [jobs EXCEPT ![j].pc = "crashed", ![j].result = NoResult]
    /\ UNCHANGED <<customerVars, siteSecret, siteKeys, dbVars, logs, deliveries, billingVars, lastRefund, raced>>

\* line 115: the response has been sent and the request is gone
Respond(d) ==
    /\ deliveries[d].pc = "done"
    /\ deliveries' = [deliveries EXCEPT ![d] = IdleDelivery]
    /\ UNCHANGED <<customerVars, siteSecret, siteKeys, dbVars, logs, jobs, billingVars,
                   lastRefund, raced>>

\* process_webhook_log is enqueued once more for the stored row i, the way
\* its docstring describes for a replay
Requeue(i) ==
    /\ i \in 1..Len(logs)
    /\ Len(jobs) < MaxJobs
    /\ jobs' = Append(jobs, [log |-> i, event_id |-> logs[i].event_id,
                             pc |-> "queued", invoked |-> FALSE,
                             result |-> NoResult])
    /\ UNCHANGED <<customerVars, siteSecret, siteKeys, dbVars, logs, deliveries, billingVars, lastRefund, raced>>

----------------------------------------------------------------------------
(* The ledger-creation jobs: schedule_monthly_billing (ledger of the       *)
(* current month) and process_monthly_minimums_by_onboarding_date (ledger  *)
(* of the previous month).  A run c walks the active restaurants; for each *)
(* it checks for a ledger, and ledger.insert() validates and then stores   *)
(* the row.  Runs are separate database transactions, so a row stored by   *)
(* one run shows to the checks of another only from the insert on.         *)

ScheduleJob == "schedule_monthly_billing"
OnboardingJob == "process_monthly_minimums_by_onboarding_date"

RestaurantOrder == <<"R1">>

\* frappe.get_all("Restaurant", filters={"is_active": 1})
ActiveRestaurants == SelectSeq(RestaurantOrder, LAMBDA r : restaurants[r].is_active)

BillingMonthOf(job) == IF job = ScheduleJob THEN CurrentMonth ELSE PreviousMonth

\* (a job without the check for an existing ledger)
LedgerExists_Never(r, month) == FALSE

\* frappe.db.exists("Monthly Billing Ledger", {restaurant, billing_month})
LedgerExists(r, month) ==
    \E i \in 1..Len(billLedgers) :
        /\ billLedgers[i].restaurant = r
        /\ billLedgers[i].billing_month = month

RECURSIVE SumTotals(_)
SumTotals(S) ==
    IF S = {} THEN 0
    ELSE LET o == CHOOSE x \in S : TRUE
         IN  orders[o].total + SumTotals(S \ {o})

\* SELECT COALESCE(SUM(total),0) of the completed orders of the restaurant
\* created in the month; the orders of the model were created in CurrentMonth
CompletedTotal(r, month) ==
    IF month = CurrentMonth
    THEN SumTotals({o \in OrderIds : /\ orders[o].restaurant = r
                                      /\ orders[o].payment_status = "completed"})
    ELSE 0

\* the document the job builds before ledger.insert()
LedgerDoc(r, month) ==
    LET total_paise == CompletedTotal(r, month) * 100
    IN  NewBillLedger(r, month, total_paise, CalculatedFee(total_paise),
                      FinalAmount(total_paise))

\* the onboarding job skips a restaurant whose onboarding day is not today
SkipsRestaurant(job, r) ==
    job = OnboardingJob /\ ~restaurants[r].onboarding_today

\* the job of run c is started
CreatorStart(c, job) ==
    /\ creators[c].pc = "idle"
    /\ creators' = [creators EXCEPT ![c] =
            [IdleCreator EXCEPT !.pc = "loop", !.job = job,
                                !.todo = ActiveRestaurants]]
    /\ UNCHANGED <<customerVars, siteSecret, siteKeys, dbVars, logs, jobs, deliveries, charges,
                   gateway, now, lastRefund, raced>>

\* one turn of the loop up to ledger.insert(): the skips and the existence check
CreatorCheck(c) ==
    /\ creators[c].pc = "loop"
    /\ LET run == creators[c]
           month == BillingMonthOf(run.job)
       IN  IF run.todo = <<>>
           THEN creators' = [creators EXCEPT ![c].pc = "done",
                                             ![c].result = "success"]
           ELSE LET r == Head(run.todo)
                    others == {x \in Creators \ {c} :
                                  /\ creators[x].pc \in {"validate", "db_insert"}
                                  /\ creators[x].doc.restaurant = r
                                  /\ creators[x].doc.billing_month = month}
                IN  IF SkipsRestaurant(run.job, r) \/ LedgerExists(r, month)
                    THEN creators' = [creators EXCEPT ![c].todo = Tail(run.todo)]
                    ELSE creators' =
                           [x \in Creators |->
                               IF x = c
                               THEN [run EXCEPT !.pc = "validate",
                                                !.doc = LedgerDoc(r, month),
                                                !.raced = @ \/ others # {}]
                               ELSE IF x \in others
                               THEN [creators[x] EXCEPT !.raced = TRUE]
                               ELSE creators[x]]
    /\ UNCHANGED <<customerVars, siteSecret, siteKeys, dbVars, logs, jobs, deliveries, charges,
                   gateway, now, lastRefund, raced>>

\* ledger.insert(): MonthlyBillingLedger.validate.  When it throws,
\* schedule_monthly_billing ends in its outer except and returns success
\* False; the onboarding job logs the error and goes on with the next
\* restaurant.
CreatorValidate(c) ==
    /\ creators[c].pc = "validate"
    /\ LET run == creators[c]
       IN  IF BillValidateThrows(billLedgers, 0, run.doc)
           THEN IF run.job = ScheduleJob
                THEN creators' = [creators EXCEPT ![c].pc = "done",
                                                  ![c].result = "error"]
                ELSE creators' = [creators EXCEPT ![c].pc = "loop",
                                                  ![c].logged_error = TRUE,
                                                  ![c].todo = Tail(run.todo)]
           ELSE creators' = [creators EXCEPT ![c].pc = "db_insert"]
    /\ UNCHANGED <<customerVars, siteSecret, siteKeys, dbVars, logs, jobs, deliveries, charges,
                   gateway, now, lastRefund, raced>>

\* ledger.insert(): before_save and the row is stored
CreatorDbInsert(c) ==
    /\ creators[c].pc = "db_insert"
    /\ Len(billLedgers) < MaxLedgers
    /\ billLedgers' = Append(billLedgers, BillBeforeSave(creators[c].doc))
    /\ creators' = [creators EXCEPT ![c].pc = "loop",
                                    ![c].created = @ + 1,
                                    ![c].todo = Tail(creators[c].todo)]
    /\ UNCHANGED <<customerVars, siteSecret, siteKeys, restaurants, orders, revLedgers, attempts,
                   logs, jobs, deliveries, charges, gateway, now, lastRefund, raced>>

\* the job has returned
CreatorReturn(c) ==
    /\ creators[c].pc = "done"
    /\ creators' = [creators EXCEPT ![c] = IdleCreator]
    /\ UNCHANGED <<customerVars, siteSecret, siteKeys, dbVars, logs, jobs, deliveries, charges,
                   gateway, now, lastRefund, raced>>

----------------------------------------------------------------------------
(* charge_monthly_bill and process_retry_charges.  A call runs in two      *)
(* steps: up to the request to the gateway, and from the gateway's answer  *)
(* on.  The ledger's name is its position in billLedgers.                  *)

RetryCap == 1440        \* minutes

\* (a backoff that is never capped)
DelayMinutes_Uncapped(retry) == 2 ^ retry

\* min(2 ** retry, 1440)
DelayMinutes(retry) == Min(2 ^ retry, RetryCap)

\* the ids the gateway gives to the payments it creates, in order
PaymentIds == <<"pay2", "pay4", "pay5", "pay6">>

\* get_razorpay_client: the modelled restaurants carry no merchant keys, so
\* the client is built from the site keys and the call throws without them
ClientConfigured(r) == siteKeys

\* a call that does not go on to the gateway has returned
CallReturned(run, result) ==
    IF run.sweep /\ run.todo # <<>>
    THEN [run EXCEPT !.pc = "sweep", !.result = result, !.ledger = 0,
                     !.retry_count = 0, !.request = 0]
    ELSE [run EXCEPT !.pc = "done", !.result = result, !.ledger = 0,
                     !.retry_count = 0, !.request = 0]

\* lines 505-511: frappe.db.set_value(..., "payment_status", "failed")
MarkFailed(rows, i) == [rows EXCEPT ![i].payment_status = "failed"]

\* (a charge that raises on a missing token and so ends in the outer except)
ChargeBegin_RaisesOnMissing(c, run, i) ==
    IF i \notin 1..Len(billLedgers)
    THEN \* frappe.get_doc throws; the set_value of the except arm finds no row
         /\ charges' = [charges EXCEPT ![c] = CallReturned(run, "error")]
         /\ UNCHANGED <<billLedgers, gateway>>
    ELSE IF billLedgers[i].payment_status = "paid"
    THEN /\ charges' = [charges EXCEPT ![c] = CallReturned(run, "already_paid")]
         /\ UNCHANGED <<billLedgers, gateway>>
    ELSE IF billLedgers[i].restaurant \notin RestaurantIds
    THEN \* frappe.get_doc("Restaurant") throws
         /\ charges' = [charges EXCEPT ![c] = CallReturned(run, "error")]
         /\ billLedgers' = MarkFailed(billLedgers, i)
         /\ UNCHANGED gateway
    ELSE IF \/ restaurants[billLedgers[i].restaurant].razorpay_customer_id = None
            \/ restaurants[billLedgers[i].restaurant].razorpay_token_id = None
    THEN /\ charges' = [charges EXCEPT ![c] = CallReturned(run, "missing_token")]
         /\ billLedgers' = MarkFailed(billLedgers, i)
         /\ UNCHANGED gateway
    ELSE IF ~ClientConfigured(billLedgers[i].restaurant)
    THEN /\ charges' = [charges EXCEPT ![c] = CallReturned(run, "error")]
         /\ billLedgers' = MarkFailed(billLedgers, i)
         /\ UNCHANGED gateway
    ELSE /\ Len(gateway) < MaxCharges
         /\ gateway' = Append(gateway,
                [ledger |-> i, amount |-> billLedgers[i].final_amount,
                 customer |-> restaurants[billLedgers[i].restaurant].razorpay_customer_id,
                 token |-> restaurants[billLedgers[i].restaurant].razorpay_token_id])
         /\ charges' = [charges EXCEPT ![c] =
                [run EXCEPT !.pc = "gateway", !.ledger = i,
                            !.retry_count = billLedgers[i].retry_count,
                            !.request = Len(gateway) + 1]]
         /\ UNCHANGED billLedgers

\* charge_monthly_bill(i) up to the request to the gateway, in run `run` of
\* slot c (lines 446-477)
ChargeBegin(c, run, i) ==
    IF i \notin 1..Len(billLedgers)
    THEN \* frappe.get_doc throws; the set_value of the except arm finds no row
         /\ charges' = [charges EXCEPT ![c] = CallReturned(run, "error")]
         /\ UNCHANGED <<billLedgers, gateway>>
    ELSE IF billLedgers[i].payment_status = "paid"
    THEN /\ charges' = [charges EXCEPT ![c] = CallReturned(run, "already_paid")]
         /\ UNCHANGED <<billLedgers, gateway>>
    ELSE IF billLedgers[i].restaurant \notin RestaurantIds
    THEN \* frappe.get_doc("Restaurant") throws
         /\ charges' = [charges EXCEPT ![c] = CallReturned(run, "error")]
         /\ billLedgers' = MarkFailed(billLedgers, i)
         /\ UNCHANGED gateway
    ELSE IF \/ restaurants[billLedgers[i].restaurant].razorpay_customer_id = None
            \/ restaurants[billLedgers[i].restaurant].razorpay_token_id = None
    THEN /\ charges' = [charges EXCEPT ![c] = CallReturned(run, "missing_token")]
         /\ UNCHANGED <<billLedgers, gateway>>
    ELSE IF ~ClientConfigured(billLedgers[i].restaurant)
    THEN /\ charges' = [charges EXCEPT ![c] = CallReturned(run, "error")]
         /\ billLedgers' = MarkFailed(billLedgers, i)
         /\ UNCHANGED gateway
    ELSE /\ Len(gateway) < MaxCharges
         /\ gateway' = Append(gateway,
                [ledger |-> i, amount |-> billLedgers[i].final_amount,
                 customer |-> restaurants[billLedgers[i].restaurant].razorpay_customer_id,
                 token |-> restaurants[billLedgers[i].restaurant].razorpay_token_id])
         /\ charges' = [charges EXCEPT ![c] =
                [run EXCEPT !.pc = "gateway", !.ledger = i,
                            !.retry_count = billLedgers[i].retry_count,
                            !.request = Len(gateway) + 1]]
         /\ UNCHANGED billLedgers

\* charge_monthly_bill(i) called directly (it is a whitelisted method); i
\* may name no ledger
ChargeCall(c, i) ==
    /\ charges[c].pc = "idle"
    /\ i \in 0..Len(billLedgers)
    /\ ChargeBegin(c, IdleCharge, i)
    /\ UNCHANGED <<customerVars, siteSecret, siteKeys, restaurants, orders, revLedgers, attempts,
                   logs, jobs, deliveries, creators, now, lastRefund, raced>>

\* lines 478-493: the gateway call threw
ChargeFails(c) ==
    /\ charges[c].pc = "gateway"
    /\ charges[c].retry_count < MaxRetry
    /\ LET run == charges[c]
           retry == run.retry_count + 1
       IN  /\ billLedgers' = [billLedgers EXCEPT
                  ![run.ledger].retry_count = retry,
                  ![run.ledger].next_retry_at = now + DelayMinutes(retry),
                  ![run.ledger].payment_status = "retry"]
           /\ charges' = [charges EXCEPT ![c] = CallReturned(run, "retry")]
    /\ UNCHANGED <<customerVars, siteSecret, siteKeys, restaurants, orders, revLedgers, attempts,
                   logs, jobs, deliveries, creators, gateway, now, lastRefund, raced>>

\* (a success that starts the retries afresh)
ChargeSucceeds_ResetsRetry(c) ==
    /\ charges[c].pc = "gateway"
    /\ LET run == charges[c]
           payment_id == PaymentIds[run.request]
       IN  /\ billLedgers' = [billLedgers EXCEPT
                  ![run.ledger].razorpay_payment_id = payment_id,
                  ![run.ledger].payment_status = "pending",
                  ![run.ledger].retry_count = 0]
           /\ charges' = [charges EXCEPT ![c] = CallReturned(run, "charged")]
    /\ UNCHANGED <<customerVars, siteSecret, siteKeys, restaurants, orders, revLedgers, attempts,
                   logs, jobs, deliveries, creators, gateway, now, lastRefund, raced>>

\* lines 495-501: the gateway created the payment
ChargeSucceeds(c) ==
    /\ charges[c].pc = "gateway"
    /\ LET run == charges[c]
           payment_id == PaymentIds[run.request]
       IN  /\ billLedgers' = [billLedgers EXCEPT
                  ![run.ledger].razorpay_payment_id = payment_id,
                  ![run.ledger].payment_status = "pending"]
           /\ charges' = [charges EXCEPT ![c] = CallReturned(run, "charged")]
    /\ UNCHANGED <<customerVars, siteSecret, siteKeys, restaurants, orders, revLedgers, attempts,
                   logs, jobs, deliveries, creators, gateway, now, lastRefund, raced>>

\* the ledgers process_retry_charges finds: payment_status retry and
\* next_retry_at <= now (line 431)
DueLedgers ==
    SelectSeq([i \in 1..Len(billLedgers) |-> i],
              LAMBDA i : /\ billLedgers[i].payment_status = "retry"
                         /\ billLedgers[i].next_retry_at <= now)

\* process_retry_charges up to its loop (lines 428-431)
SweepStart(c) ==
    /\ charges[c].pc = "idle"
    /\ charges' = [charges EXCEPT ![c] =
            IF DueLedgers = <<>>
            THEN [IdleCharge EXCEPT !.pc = "done", !.sweep = TRUE,
                                    !.result = "processed"]
            ELSE [IdleCharge EXCEPT !.pc = "sweep", !.sweep = TRUE,
                                    !.todo = DueLedgers]]
    /\ UNCHANGED <<customerVars, siteSecret, siteKeys, dbVars, logs, jobs, deliveries, creators,
                   gateway, now, lastRefund, raced>>

\* one turn of the loop of process_retry_charges (lines 432-436)
SweepNext(c) ==
    /\ charges[c].pc = "sweep"
    /\ ChargeBegin(c, [charges[c] EXCEPT !.todo = Tail(@)], Head(charges[c].todo))
    /\ UNCHANGED <<customerVars, siteSecret, siteKeys, restaurants, orders, revLedgers, attempts,
                   logs, jobs, deliveries, creators, now, lastRefund, raced>>

\* the call, or the sweep, has returned
ChargeReturn(c) ==
    /\ charges[c].pc = "done"
    /\ charges' = [charges EXCEPT ![c] = IdleCharge]
    /\ UNCHANGED <<customerVars, siteSecret, siteKeys, dbVars, logs, jobs, deliveries, creators,
                   gateway, now, lastRefund, raced>>

\* time passes until the next retry falls due
Tick ==
    /\ \E i \in 1..Len(billLedgers) :
          /\ billLedgers[i].payment_status = "retry"
          /\ billLedgers[i].next_retry_at > now
          /\ now' = billLedgers[i].next_retry_at
    /\ UNCHANGED <<customerVars, siteSecret, siteKeys, dbVars, logs, jobs, deliveries, creators,
                   charges, gateway, lastRefund, raced>>

----------------------------------------------------------------------------
(* utils/customer_helpers.py and doctype/customer: the platform-wide       *)
(* Customer record of a phone number.  A phone is the sequence of its      *)
(* characters; the name of a Customer document is its number in insertion  *)
(* order.                                                                  *)

MaxCustomers == 3       \* Customer rows

DigitChars == {"0", "1", "2", "3", "4", "5", "6", "7", "8", "9"}

\* re.sub(r"\D", "", phone), and of ten or more digits the last ten
normalize_phone(phone) ==
    LET digits == SelectSeq(phone, LAMBDA ch : ch \in DigitChars)
    IN  IF Len(digits) >= 10
        THEN SubSeq(digits, Len(digits) - 9, Len(digits))
        ELSE digits

\* the form a phone is stored in: a leading 0 of the ten digits becomes 9
canonical_phone(phone) ==
    LET normalized == normalize_phone(phone)
    IN  IF Len(normalized) # 10
        THEN normalized
        ELSE IF Head(normalized) = "0"
        THEN <<"9">> \o Tail(normalized)
        ELSE normalized

\* the first of the rows S, 0 when there is none
FirstRow(S) == IF S = {} THEN 0 ELSE First(S)

\* (a lookup that finds no Customer)
find_existing_customer_by_phone_Never(rows, phone) == 0

\* _find_existing_customer_by_phone: the number of the row, 0 for None
find_existing_customer_by_phone(rows, phone) ==
    LET canonical == canonical_phone(phone)
        normalized == normalize_phone(phone)
        exact == FirstRow({i \in 1..Len(rows) : rows[i].phone = canonical})
        alternate == FirstRow({i \in 1..Len(rows) : rows[i].phone = normalized})
        scanned == FirstRow({i \in 1..Len(rows) :
                                /\ rows[i].phone # <<>>
                                /\ canonical_phone(rows[i].phone) = canonical})
    IN  IF Len(canonical) # 10 THEN 0
        ELSE IF exact # 0 THEN exact
        ELSE IF normalized # canonical /\ alternate # 0 THEN alternate
        ELSE scanned

\* Customer.validate of the document named name (0: not yet inserted):
\* TRUE when it throws
CustomerValidateThrows(rows, name, doc) ==
    \/ Len(canonical_phone(doc.phone)) # 10
    \/ LET existing == find_existing_customer_by_phone(rows, canonical_phone(doc.phone))
       IN  existing # 0 /\ existing # name

\* Customer.validate stores the canonical form
CustomerValidated(doc) == [doc EXCEPT !.phone = canonical_phone(doc.phone)]

NoCall ==
    [phone |-> <<>>, name |-> None, email |-> None, result |-> "idle", customer |-> 0]

\* get_or_create_customer(phone, name, email): result "none" (None is
\* returned), "customer" (the document customer is returned) or "throw"
get_or_create_customer(phone, name, email) ==
    LET canonical == canonical_phone(phone)
        existing == find_existing_customer_by_phone(customers, phone)
        call == [phone |-> phone, name |-> name, email |-> email,
                 result |-> "none", customer |-> 0]
    IN  /\ IF Len(canonical) # 10
           THEN /\ lastCall' = call
                /\ customers' = customers
           ELSE IF existing # 0
           THEN LET existing_doc ==
                        [customers[existing] EXCEPT
                            !.customer_name = IF name # None THEN name ELSE @,
                            !.email = IF email # None THEN email ELSE @]
                IN  IF CustomerValidateThrows(customers, existing, existing_doc)
                    THEN /\ lastCall' = [call EXCEPT !.result = "throw"]
                         /\ customers' = customers
                    ELSE /\ customers' = [customers EXCEPT ![existing] =
                                              CustomerValidated(existing_doc)]
                         /\ lastCall' = [call EXCEPT !.result = "customer",
                                                     !.customer = existing]
           ELSE LET doc == [phone |-> canonical,
                            customer_name |-> IF name # None THEN name
                                              ELSE "Customer",
                            email |-> IF email # None THEN email ELSE ""]
                IN  IF CustomerValidateThrows(customers, 0, doc)
                    THEN /\ lastCall' = [call EXCEPT !.result = "throw"]
                         /\ customers' = customers
                    ELSE /\ Len(customers) < MaxCustomers
                         /\ customers' = Append(customers, CustomerValidated(doc))
                         /\ lastCall' = [call EXCEPT !.result = "customer",
                                                     !.customer = Len(customers) + 1]
        /\ UNCHANGED <<siteSecret, siteKeys, dbVars, logs, jobs, deliveries,
                       billingVars, lastRefund, raced>>

----------------------------------------------------------------------------
(* The webhook pipeline.                                                   *)

\* a ledger that charge_monthly_bill has charged as payment pay2
ChargedLedger ==
    [NewBillLedger("R1", PreviousMonth, 0, 0, MinAmount)
        EXCEPT !.razorpay_payment_id = "pay2"]

\* no Customer is stored and get_or_create_customer has not been called
NoCustomers ==
    /\ customers = <<>>
    /\ lastCall = NoCall

NoProcesses ==
    /\ logs = <<>>
    /\ jobs = <<>>
    /\ deliveries = [d \in Deliveries |-> IdleDelivery]
    /\ creators = [c \in Creators |-> IdleCreator]
    /\ charges = [c \in Charges |-> IdleCharge]
    /\ gateway = <<>>
    /\ now = 0
    /\ lastRefund = BasePayload
    /\ raced = {}

\* Intake: every kind of signature, racing deliveries, one kind of event
IntakeRequests ==
    UNION {{<<body, signature>> : signature \in SignaturesFor(body)} :
              body \in WithEventIds({CapturedOrder}, EventIds)}

Init ==
    /\ siteSecret \in {None, SiteSecretValue}
    /\ siteKeys = TRUE
    /\ restaurants \in {rs \in InitRestaurants :
                           \A r \in RestaurantIds : rs[r].razorpay_token_id = None}
    /\ orders \in {os \in InitOrders :
                      \A o \in OrderIds : /\ os[o].total # 0
                                           /\ os[o].payment_status = "completed"}
    /\ revLedgers \in {rl \in InitRevLedgers : \A r \in RestaurantIds : rl[r].exists}
    /\ billLedgers = <<>>
    /\ attempts \in InitAttempts
    /\ NoCustomers
    /\ NoProcesses

Next ==
    \/ \E d \in Deliveries : Receive(d, IntakeRequests)
    \/ \E d \in Deliveries : Insert(d)
    \/ \E d \in Deliveries : Enqueue(d)
    \/ \E d \in Deliveries : EnqueueFails(d)
    \/ \E j \in 1..MaxJobs : WorkerRun(j)
    \/ \E j \in 1..MaxJobs : WorkerMark(j)
    \/ \E j \in 1..MaxJobs : WorkerCrash(j)

Spec == Init /\ [][Next]_vars

----------------------------------------------------------------------------
(* The handlers: every kind of event, correctly signed, one delivery after *)
(* the other.                                                              *)

HandlerRequests ==
    {<<body, Hmac(SiteSecretValue, body)>> :
        body \in WithEventIds(Entities, {None})}

\* no request is inside razorpay_webhook and no job is waiting or running
Quiescent ==
    /\ \A d \in Deliveries : deliveries[d].pc \in {"idle", "done"}
    /\ \A j \in 1..Len(jobs) : jobs[j].pc \in {"done", "crashed"}

HandlerReceive == Quiescent /\ Receive(1, HandlerRequests)

HandlerRequeue(i) == Quiescent /\ Requeue(i)

\* the worker dies between the return of the handler and the marking
HandlerCrash(j) ==
    /\ j \in 1..Len(jobs)
    /\ jobs[j].pc = "handled"
    /\ WorkerCrash(j)

\* verify_payment(razorpay_order_id, razorpay_payment_id, signature) with a
\* signature the client accepts: the payment id is stored on the Order of
\* the razorpay order (payments.py lines 164-170); payment_status is left
\* to the webhook
verify_payment(o) ==
    /\ siteKeys
    /\ orders[o].razorpay_payment_id = None
    /\ orders' = [orders EXCEPT ![o].razorpay_payment_id = "pay1",
                                ![o].transaction_id = "pay1"]
    /\ UNCHANGED <<customerVars, siteSecret, siteKeys, restaurants, revLedgers, billLedgers,
                   attempts, logs, jobs, deliveries, billingVars, lastRefund, raced>>

HandlerInit ==
    /\ siteSecret = SiteSecretValue
    /\ siteKeys = TRUE
    /\ restaurants \in {rs \in InitRestaurants :
                           \A r \in RestaurantIds :
                               /\ rs[r].razorpay_token_id = None
                               /\ rs[r].razorpay_webhook_secret = None}
    /\ orders \in InitOrders
    /\ revLedgers \in InitRevLedgers
    /\ billLedgers \in {<<>>, <<ChargedLedger>>}
    /\ \A o \in OrderIds : \A r \in RestaurantIds :
          \* an order nobody paid belongs to a restaurant without ledgers, a
          \* paid one to a restaurant with a revenue ledger
          /\ revLedgers[r].exists <=> orders[o].razorpay_payment_id # None
          /\ billLedgers # <<>> <=> /\ orders[o].razorpay_payment_id # None
                                     /\ orders[o].total # 0
    /\ attempts \in InitAttempts
    /\ NoCustomers
    /\ NoProcesses

HandlerNext ==
    \/ \E o \in OrderIds : verify_payment(o)
    \/ HandlerReceive
    \/ Insert(1)
    \/ Enqueue(1)
    \/ Respond(1)
    \/ \E i \in 1..MaxLogs : HandlerRequeue(i)
    \/ \E j \in 1..MaxJobs : WorkerRun(j)
    \/ \E j \in 1..MaxJobs : WorkerMark(j)
    \/ \E j \in 1..MaxJobs : HandlerCrash(j)

HandlerSpec == HandlerInit /\ [][HandlerNext]_vars

----------------------------------------------------------------------------
(* The ledger-creation jobs, two runs at a time.                           *)

LedgerInit ==
    /\ siteSecret = SiteSecretValue
    /\ siteKeys = TRUE
    /\ restaurants \in {rs \in InitRestaurants :
                           \A r \in RestaurantIds :
                               /\ rs[r].razorpay_webhook_secret = None
                               /\ rs[r].razorpay_token_id = None}
    /\ orders \in {os \in InitOrders : \A o \in OrderIds : os[o].total # 0}
    /\ revLedgers \in {rl \in InitRevLedgers : \A r \in RestaurantIds : rl[r].exists}
    /\ billLedgers \in {<<>>, <<NewBillLedger("R1", PreviousMonth, 0, 0, MinAmount)>>}
    /\ attempts \in InitAttempts
    /\ NoCustomers
    /\ NoProcesses

LedgerNext ==
    \/ \E c \in Creators : \E job \in {ScheduleJob, OnboardingJob} : CreatorStart(c, job)
    \/ \E c \in Creators : CreatorCheck(c)
    \/ \E c \in Creators : CreatorValidate(c)
    \/ \E c \in Creators : CreatorDbInsert(c)
    \/ \E c \in Creators : CreatorReturn(c)

LedgerSpec == LedgerInit /\ [][LedgerNext]_vars

----------------------------------------------------------------------------
(* The charge routine and the retry sweep, two calls at a time, with the   *)
(* webhooks of the charges.                                                *)

ChargeRequests ==
    {<<body, Hmac(SiteSecretValue, body)>> :
        body \in WithEventIds({CapturedCharge, FailedCharge}, {None})}

\* one webhook after the other
ChargeReceive ==
    /\ \A j \in 1..Len(jobs) : jobs[j].pc \in {"done", "crashed"}
    /\ Receive(1, ChargeRequests)

\* restaurants with both, one or none of customer id and token: a
\* tokenization payment may bring either (webhooks.py lines 153-156)
ChargeRestaurants ==
    {[r \in RestaurantIds |->
        [rs[r] EXCEPT !.razorpay_customer_id = tok[1],
                      !.razorpay_token_id = tok[2],
                      !.mandate_status = IF tok[2] = None THEN "none" ELSE "active"]] :
        rs \in {x \in InitRestaurants :
                  \A r \in RestaurantIds :
                      /\ x[r].razorpay_webhook_secret = None
                      /\ x[r].razorpay_token_id = None},
        tok \in {<<None, None>>, <<"cust1", None>>, <<None, "tok1">>,
                 <<"cust1", "tok1">>}}

ChargeInit ==
    /\ siteSecret = SiteSecretValue
    /\ siteKeys \in BOOLEAN
    /\ restaurants \in ChargeRestaurants
    /\ orders \in {os \in InitOrders :
                      \A o \in OrderIds : /\ os[o].total # 0
                                           /\ os[o].payment_status = "completed"}
    /\ revLedgers \in {rl \in InitRevLedgers : \A r \in RestaurantIds : rl[r].exists}
    /\ billLedgers = <<NewBillLedger("R1", PreviousMonth, 0, 0, MinAmount)>>
    /\ attempts \in InitAttempts
    /\ NoCustomers
    /\ NoProcesses

ChargeNext ==
    \/ \E c \in Charges : \E i \in 0..MaxLedgers : ChargeCall(c, i)
    \/ \E c \in Charges : ChargeFails(c)
    \/ \E c \in Charges : ChargeSucceeds(c)
    \/ \E c \in Charges : SweepStart(c)
    \/ \E c \in Charges : SweepNext(c)
    \/ \E c \in Charges : ChargeReturn(c)
    \/ Tick
    \/ ChargeReceive
    \/ Insert(1)
    \/ Enqueue(1)
    \/ Respond(1)
    \/ \E j \in 1..MaxJobs : WorkerRun(j)
    \/ \E j \in 1..MaxJobs : WorkerMark(j)

ChargeSpec == ChargeInit /\ [][ChargeNext]_vars

----------------------------------------------------------------------------
(* Retries of one ledger: charge_monthly_bill and the retry sweep, one     *)
(* call after the other, on a ledger that has failed any number of times   *)
(* before, with the payment.captured events of the payments it creates.    *)

\* the ledger after `failures` failed attempts, its retry being due
FailedLedger(failures) ==
    [NewBillLedger("R1", PreviousMonth, 0, 0, MinAmount)
        EXCEPT !.retry_count = failures,
               !.payment_status = IF failures = 0 THEN "pending" ELSE "retry"]

\* payment.captured for the payment of the last successful charge
RechargeEvents ==
    {[CapturedCharge EXCEPT !.payment_id = PaymentIds[k]] :
        k \in {n \in 1..Len(gateway) :
                  \E i \in 1..Len(billLedgers) :
                      billLedgers[i].razorpay_payment_id = PaymentIds[n]}}

RechargeRequests ==
    {<<body, Hmac(SiteSecretValue, body)>> :
        body \in WithEventIds(RechargeEvents, {None})}

\* the event arrives between two calls
RechargeReceive ==
    /\ charges[1].pc = "idle"
    /\ \A j \in 1..Len(jobs) : jobs[j].pc \in {"done", "crashed"}
    /\ Receive(1, RechargeRequests)

RechargeInit ==
    /\ siteSecret = SiteSecretValue
    /\ siteKeys = TRUE
    /\ restaurants \in ChargeRestaurants
    /\ orders \in {os \in InitOrders :
                      \A o \in OrderIds : /\ os[o].total # 0
                                           /\ os[o].payment_status = "completed"}
    /\ revLedgers \in {rl \in InitRevLedgers : \A r \in RestaurantIds : rl[r].exists}
    /\ \E failures \in 0..(MaxRetry - 1) : billLedgers = <<FailedLedger(failures)>>
    /\ attempts \in InitAttempts
    /\ NoCustomers
    /\ NoProcesses

RechargeNext ==
    \/ ChargeCall(1, 1)
    \/ ChargeFails(1)
    \/ ChargeSucceeds(1)
    \/ SweepStart(1)
    \/ SweepNext(1)
    \/ ChargeReturn(1)
    \/ Tick
    \/ RechargeReceive
    \/ Insert(1)
    \/ Enqueue(1)
    \/ Respond(1)
    \/ \E j \in 1..MaxJobs : WorkerRun(j)
    \/ \E j \in 1..MaxJobs : WorkerMark(j)

RechargeSpec == RechargeInit /\ [][RechargeNext]_vars

----------------------------------------------------------------------------
(* The amounts of a billing ledger: the two creation jobs, one run after   *)
(* the other, over months of small and large sales, and updates of a       *)
(* stored ledger through update_document.                                  *)

\* totals of the month's completed order, in rupees
OrderTotals == {5, 99900, 99901, 250000, 399900, 500000}

\* values of total_gmv, in paise, that update_document is asked to store
GmvSamples ==
    {0, 99, 150, 9989999, 9990000, 9990100, 25000050, 39990000, 39990099,
     39990100, 50000000}

\* values of final_amount sent along with them
FinalSamples == {0, 250000}

\* update_document("Monthly Billing Ledger", i, {total_gmv, final_amount}):
\* the fields are set and doc.save() runs validate and before_save; when
\* validate throws nothing is stored
UpdateLedger(i, total_gmv, final_amount) ==
    /\ i \in 1..Len(billLedgers)
    /\ LET doc == [billLedgers[i] EXCEPT !.total_gmv = total_gmv,
                                         !.final_amount = final_amount]
       IN  billLedgers' = IF BillValidateThrows(billLedgers, i, doc)
                          THEN billLedgers
                          ELSE [billLedgers EXCEPT ![i] = BillBeforeSave(doc)]
    /\ UNCHANGED <<customerVars, siteSecret, siteKeys, restaurants, orders, revLedgers, attempts,
                   logs, jobs, deliveries, creators, charges, gateway, now,
                   lastRefund, raced>>

FeeInit ==
    /\ siteSecret = SiteSecretValue
    /\ siteKeys = TRUE
    /\ restaurants \in {rs \in InitRestaurants :
                           \A r \in RestaurantIds :
                               /\ rs[r].razorpay_webhook_secret = None
                               /\ rs[r].razorpay_token_id = None}
    /\ \E os \in InitOrders : \E total \in OrderTotals :
          /\ \A o \in OrderIds : /\ os[o].total # 0
                                 /\ os[o].payment_status = "completed"
          /\ orders = [o \in OrderIds |-> [os[o] EXCEPT !.total = total]]
    /\ revLedgers \in {rl \in InitRevLedgers : \A r \in RestaurantIds : rl[r].exists}
    /\ billLedgers = <<>>
    /\ attempts \in InitAttempts
    /\ NoCustomers
    /\ NoProcesses

FeeNext ==
    \/ \E job \in {ScheduleJob, OnboardingJob} : CreatorStart(1, job)
    \/ CreatorCheck(1)
    \/ CreatorValidate(1)
    \/ CreatorDbInsert(1)
    \/ CreatorReturn(1)
    \/ \E i \in 1..MaxLedgers : \E total_gmv \in GmvSamples :
          \E final_amount \in FinalSamples : UpdateLedger(i, total_gmv, final_amount)

FeeSpec == FeeInit /\ [][FeeNext]_vars

----------------------------------------------------------------------------
(* The choice of the webhook secret: two restaurants, each with or without *)
(* a webhook secret of its own, and deliveries of one payment event whose  *)
(* account_id and notes name either, both or neither of them, signed with  *)
(* the site secret or with a merchant secret.                              *)

SecretRestaurants ==
    {[r \in {"R1", "R2"} |->
        [razorpay_account_id |-> IF r = "R1" THEN "acc1" ELSE "acc2",
         razorpay_webhook_secret |-> sec[r],
         razorpay_customer_id |-> None,
         razorpay_token_id |-> None,
         mandate_status |-> "none",
         billing_status |-> "active",
         is_active |-> TRUE,
         onboarding_today |-> TRUE,
         monthly_minimum |-> 999]] :
        sec \in [{"R1", "R2"} -> {None, MerchantSecretValue, SecondSecretValue}]}

SecretBodies ==
    {[CapturedOrder EXCEPT !.account_id = account_id,
                           !.notes_restaurant_id = restaurant_id] :
        account_id \in {None, "acc1", "acc9"},
        restaurant_id \in {None, "R1", "R2", "R9"}}

\* the deliveries of a behaviour carry one body
SecretRequests ==
    {<<body, Hmac(secret, body)>> :
        body \in {b \in SecretBodies :
                     \A d \in Deliveries :
                         deliveries[d].pc # "idle" => deliveries[d].body = b},
        secret \in {SiteSecretValue, MerchantSecretValue, SecondSecretValue}}

SecretInit ==
    /\ siteSecret \in {None, SiteSecretValue}
    /\ siteKeys = TRUE
    /\ restaurants \in SecretRestaurants
    /\ orders \in {os \in InitOrders :
                      \A o \in OrderIds : os[o].razorpay_payment_id = None}
    /\ revLedgers \in {rl \in InitRevLedgers : \A r \in RestaurantIds : rl[r].exists}
    /\ billLedgers = <<>>
    /\ attempts \in InitAttempts
    /\ NoCustomers
    /\ NoProcesses

SecretNext ==
    \/ \E d \in Deliveries : Receive(d, SecretRequests)
    \/ \E d \in Deliveries : Insert(d)
    \/ \E d \in Deliveries : Enqueue(d)

SecretSpec == SecretInit /\ [][SecretNext]_vars

----------------------------------------------------------------------------
(* The Customer of a phone: calls of get_or_create_customer, one after the *)
(* other, with phones written in several ways.  The store is empty at the  *)
(* start or holds one Customer saved with the phone as it was typed.       *)

\* 9999888877, the same with country code, the same with a leading 0 for
\* the first digit, 7487871213, and two phones without ten digits
PhoneSamples ==
    {<<"9", "9", "9", "9", "8", "8", "8", "8", "7", "7">>,
     <<"+", "9", "1", " ", "9", "9", "9", "9", "8", " ", "8", "8", "8", "7", "7">>,
     <<"0", "9", "9", "9", "8", "8", "8", "8", "7", "7">>,
     <<"7", "4", "8", "7", "8", "7", "1", "2", "1", "3">>,
     <<"1", "2", "3">>,
     <<>>}

NameSamples == {None, "Test User", "Updated Name"}

EmailSamples == {None, "test@example.com"}

\* a Customer stored before phones were made canonical
LegacyCustomer ==
    [phone |-> <<"+", "9", "1", " ", "7", "4", "8", "7", "8", "7", "1", "2", "1", "3">>,
     customer_name |-> "Legacy", email |-> ""]

CustomerInit ==
    /\ siteSecret = SiteSecretValue
    /\ siteKeys = TRUE
    /\ restaurants \in {rs \in InitRestaurants :
                           \A r \in RestaurantIds :
                               /\ rs[r].razorpay_webhook_secret = None
                               /\ rs[r].razorpay_token_id = None}
    /\ orders \in {os \in InitOrders :
                      \A o \in OrderIds : os[o].razorpay_payment_id = None}
    /\ revLedgers \in {rl \in InitRevLedgers : \A r \in RestaurantIds : rl[r].exists}
    /\ billLedgers = <<>>
    /\ attempts \in InitAttempts
    /\ NoProcesses
    /\ customers \in {<<>>, <<LegacyCustomer>>}
    /\ lastCall = NoCall

CustomerNext ==
    \E phone \in PhoneSamples : \E name \in NameSamples : \E email \in EmailSamples :
        get_or_create_customer(phone, name, email)

CustomerSpec == CustomerInit /\ [][CustomerNext]_vars

----------------------------------------------------------------------------
(* The pipeline over time: the gateway delivers one event again and again, *)
(* requests and workers run to their end, the enqueue may fail and a       *)
(* worker may die, and the jobs of scheduler_events (hooks.py) keep        *)
(* running: process_retry_charges every hour and                           *)
(* process_monthly_minimums_by_onboarding_date every midnight.             *)

\* a ledger of the current month whose charge failed and is due for a retry
RetryLedger ==
    [NewBillLedger("R1", CurrentMonth, 500, 5, MinAmount)
        EXCEPT !.payment_status = "retry", !.retry_count = 1]

LiveRequests ==
    {<<body, Hmac(SiteSecretValue, body)>> :
        body \in WithEventIds({LinkPaid}, {"E1"})}

LiveInit ==
    /\ siteSecret = SiteSecretValue
    /\ siteKeys = TRUE
    /\ restaurants \in {rs \in InitRestaurants :
                           \A r \in RestaurantIds :
                               /\ rs[r].razorpay_webhook_secret = None
                               /\ rs[r].razorpay_token_id = None}
    /\ orders \in {os \in InitOrders :
                      \A o \in OrderIds : /\ os[o].total # 0
                                           /\ os[o].payment_status = "completed"}
    /\ revLedgers \in {rl \in InitRevLedgers : \A r \in RestaurantIds : rl[r].exists}
    /\ billLedgers = <<RetryLedger>>
    /\ attempts \in InitAttempts
    /\ NoCustomers
    /\ NoProcesses

LiveReceive == \E d \in Deliveries : Receive(d, LiveRequests)
LiveInsert == \E d \in Deliveries : Insert(d)
LiveEnqueue == \E d \in Deliveries : Enqueue(d) \/ EnqueueFails(d)
LiveRespond == \E d \in Deliveries : Respond(d)
LiveWorker == \E j \in 1..MaxJobs : WorkerRun(j) \/ WorkerMark(j)
LiveCrash == \E j \in 1..MaxJobs : WorkerCrash(j)
LiveRetrySweep == SweepStart(1) \/ SweepNext(1) \/ ChargeReturn(1)
LiveOnboarding ==
    \/ CreatorStart(1, OnboardingJob)
    \/ CreatorCheck(1)
    \/ CreatorValidate(1)
    \/ CreatorDbInsert(1)
    \/ CreatorReturn(1)

LiveNext ==
    \/ LiveReceive
    \/ LiveInsert
    \/ LiveEnqueue
    \/ LiveRespond
    \/ LiveWorker
    \/ LiveCrash
    \/ LiveRetrySweep
    \/ LiveOnboarding

\* the gateway keeps redelivering, a request inside razorpay_webhook gets to
\* its end, a worker takes every queued job and the scheduler keeps running
\* its jobs; nothing obliges an enqueue to fail or a worker to die
LiveSpec ==
    /\ LiveInit
    /\ [][LiveNext]_vars
    /\ WF_vars(LiveReceive)
    /\ WF_vars(LiveInsert)
    /\ WF_vars(LiveEnqueue)
    /\ WF_vars(LiveRespond)
    /\ WF_vars(LiveWorker)
    /\ WF_vars(LiveRetrySweep)
    /\ WF_vars(LiveOnboarding)

----------------------------------------------------------------------------
(* Properties of the intake.                                               *)

JobsOf(event_id) == {j \in 1..Len(jobs) : jobs[j].event_id = event_id}

Invocations(event_id) == {j \in JobsOf(event_id) : jobs[j].invoked}

InsertedBy(event_id) ==
    {d \in Deliveries : /\ deliveries[d].inserted
                        /\ deliveries[d].body.event_id = event_id}

\* the signature of request d is the HMAC of its body under the resolved secret
Authentic(d) ==
    /\ ResolveSecret(deliveries[d].body) # None
    /\ deliveries[d].signature =
           Hmac(ResolveSecret(deliveries[d].body), deliveries[d].body)

\* C1: for a non-empty event id whose deliveries came one after the other,
\* there is at most one log row, one enqueued job and one handler
\* invocation; the delivery that was accepted inserted the one row and its
\* enqueue made the one job; every other validly signed delivery returned
\* "Duplicate event ignored" without inserting or enqueueing; and once the row
\* is processed the handler has been invoked exactly once.
C1_SequentialDedup ==
    \A e \in EventIds \ {None} :
        e \notin raced =>
            /\ Cardinality(LogsOf(e)) <= 1
            /\ Cardinality(JobsOf(e)) <= 1
            /\ Cardinality(Invocations(e)) <= 1
            /\ Cardinality(InsertedBy(e)) <= 1
            /\ \A d \in Deliveries :
                  (/\ deliveries[d].pc = "done"
                   /\ deliveries[d].body.event_id = e
                   /\ Authentic(d))
                  => \/ /\ deliveries[d].result = "received"
                        /\ deliveries[d].inserted
                        /\ Cardinality(LogsOf(e)) = 1
                        /\ deliveries[d].enqueued => Cardinality(JobsOf(e)) = 1
                     \/ /\ deliveries[d].result = "duplicate"
                        /\ ~deliveries[d].inserted
                        /\ ~deliveries[d].enqueued
                        /\ Cardinality(LogsOf(e)) = 1
            /\ \A i \in LogsOf(e) :
                  (logs[i].processed /\ logs[i].event_type \in HandledEvents)
                  => Cardinality(Invocations(e)) = 1

\* C1 witness: an event was delivered twice in a row, the first delivery
\* logged and enqueued it, the second was answered as a duplicate, and the
\* row has been processed by the one handler invocation.
C1_Witness ==
    \E e \in EventIds \ {None} : \E d1, d2 \in Deliveries :
        /\ e \notin raced
        /\ d1 # d2
        /\ deliveries[d1].pc = "done" /\ deliveries[d2].pc = "done"
        /\ deliveries[d1].body.event_id = e /\ deliveries[d2].body.event_id = e
        /\ deliveries[d1].result = "received" /\ deliveries[d1].enqueued
        /\ deliveries[d2].result = "duplicate"
        /\ \E i \in LogsOf(e) : logs[i].processed
        /\ Cardinality(Invocations(e)) = 1

\* C2: also when deliveries of one event id overlap there is one log row and
\* one enqueued job for it, and a delivery that did not insert the row is
\* answered as a duplicate.
C2_ConcurrentDedup ==
    \A e \in EventIds \ {None} :
        /\ Cardinality(LogsOf(e)) <= 1
        /\ Cardinality(JobsOf(e)) <= 1
        /\ \A d \in Deliveries :
              (/\ deliveries[d].pc = "done"
               /\ deliveries[d].body.event_id = e
               /\ Authentic(d)
               /\ ~deliveries[d].inserted)
              => deliveries[d].result = "duplicate" /\ ~deliveries[d].enqueued

\* C3: a request whose signature is not the HMAC of its body under the
\* resolved secret is answered with a failure, inserts no log row and
\* enqueues no job; every row and every job stems from an authentic request.
C3_SignatureRejection ==
    /\ \A d \in Deliveries :
          (deliveries[d].pc # "idle" /\ ~Authentic(d))
          => /\ deliveries[d].pc = "done"
             /\ deliveries[d].result = "rejected"
             /\ ~deliveries[d].inserted
             /\ ~deliveries[d].enqueued
    /\ Len(logs) = Cardinality({d \in Deliveries :
                                   Authentic(d) /\ deliveries[d].inserted})
    /\ Len(jobs) = Cardinality({d \in Deliveries :
                                   Authentic(d) /\ deliveries[d].enqueued})

\* C3 witness: a request carrying the signature of the untampered body was
\* rejected while another, authentic request was logged.
C3_Witness ==
    \E d1, d2 \in Deliveries :
        /\ deliveries[d1].pc = "done"
        /\ deliveries[d1].result = "rejected"
        /\ ResolveSecret(deliveries[d1].body) = SiteSecretValue
        /\ deliveries[d1].signature =
               Hmac(SiteSecretValue, TamperSource(deliveries[d1].body))
        /\ deliveries[d2].inserted

----------------------------------------------------------------------------
(* Properties of the worker and the handlers.                              *)

PayloadOf(j) == logs[jobs[j].log].payload

\* job j runs process_webhook_log up to the return of the handler
RunsHandler(j) ==
    /\ jobs[j].pc = "queued"
    /\ jobs[j].log # 0
    /\ jobs'[j].pc = "handled"

\* the payment.captured of an ordinary order payment: no tokenization
\* notes, no billing ledger with the payment id, an Order with the order id
OrdinaryCapture(p) ==
    /\ p.event = "payment.captured"
    /\ p.notes_type # "tokenization"
    /\ p.notes_attempt_id = None
    /\ LedgersByPayment(p.payment_id) = {}
    /\ \E o \in OrderIds : orders[o].razorpay_order_id = p.order_id

\* C4: processing the payment.captured of an ordinary order payment sets
\* the Order to completed / confirmed, records the payment id and adds the
\* order total to total_gmv of the restaurant's revenue ledger.
C4_OrderCaptured ==
    [][\A j \in 1..Len(jobs) :
          (RunsHandler(j) /\ OrdinaryCapture(PayloadOf(j)))
          => \A o \in OrderIds :
                orders[o].razorpay_order_id = PayloadOf(j).order_id
                => /\ orders'[o].payment_status = "completed"
                   /\ orders'[o].status = "confirmed"
                   /\ orders'[o].razorpay_payment_id = PayloadOf(j).payment_id
                   /\ revLedgers'[orders[o].restaurant].total_gmv =
                          revLedgers[orders[o].restaurant].total_gmv
                              + orders[o].total * 100]_vars

\* C5: a log row whose handler failed with an exception is never marked
\* processed.
C5_ExceptionLeavesUnprocessed ==
    \A i \in 1..Len(logs) :
        logs[i].processing_result.exc => ~logs[i].processed

\* C7: a process_webhook_log call that finds its log row processed invokes
\* no handler and changes no document and no log row.
C7_ProcessedIsFinal ==
    [][\A j \in 1..Len(jobs) :
          (/\ jobs[j].pc = "queued"
           /\ jobs[j].log # 0
           /\ logs[jobs[j].log].processed
           /\ jobs'[j] # jobs[j])
          => /\ jobs'[j].pc = "done"
             /\ ~jobs'[j].invoked
             /\ UNCHANGED <<dbVars, logs>>]_vars

\* C7 witness: a job for a row of a handled event type that was already
\* processed has finished without invoking the handler.
C7_Witness ==
    \E j \in 1..Len(jobs) :
        /\ jobs[j].pc = "done"
        /\ ~jobs[j].invoked
        /\ jobs[j].log # 0
        /\ logs[jobs[j].log].processed
        /\ logs[jobs[j].log].event_type \in HandledEvents
        /\ \E k \in 1..Len(jobs) : k # j /\ jobs[k].log = jobs[j].log /\ jobs[k].invoked

\* C8: handle_refund_processed invoked again with the payload it applied
\* last leaves the payment_status and status of every Order and total_gmv
\* and total_platform_fee of every revenue ledger as they are.
C8_RefundIdempotent ==
    [][\A j \in 1..Len(jobs) :
          (RunsHandler(j) /\ PayloadOf(j) = lastRefund)
          => /\ \A o \in OrderIds :
                   /\ orders'[o].payment_status = orders[o].payment_status
                   /\ orders'[o].status = orders[o].status
             /\ \A r \in RestaurantIds :
                   /\ revLedgers'[r].total_gmv = revLedgers[r].total_gmv
                   /\ revLedgers'[r].total_platform_fee =
                          revLedgers[r].total_platform_fee]_vars

----------------------------------------------------------------------------
(* Properties of the billing ledgers.                                      *)

RowsOf(r, month) ==
    {i \in 1..Len(billLedgers) : /\ billLedgers[i].restaurant = r
                                  /\ billLedgers[i].billing_month = month}

\* C9: also when runs of the ledger-creation jobs overlap there is at most
\* one Monthly Billing Ledger row per restaurant and billing month, and a run
\* that overlapped with another on a ledger ends without an error: it neither
\* returns success False nor logs a failure.
C9_ConcurrentCreate ==
    /\ \A r \in RestaurantIds : \A month \in {CurrentMonth, PreviousMonth} :
          Cardinality(RowsOf(r, month)) <= 1
    /\ \A c \in Creators :
          creators[c].raced => /\ creators[c].result # "error"
                               /\ ~creators[c].logged_error

\* C10: no step of charge_monthly_bill or process_retry_charges sets the
\* payment_status of a Monthly Billing Ledger to paid or to failed.
C10_TerminalOnlyByHandlers ==
    [][\A c \in Charges :
          charges'[c] # charges[c]
          => \A i \in 1..Len(billLedgers) :
                billLedgers'[i].payment_status \in {"paid", "failed"}
                => billLedgers'[i].payment_status = billLedgers[i].payment_status]_vars

----------------------------------------------------------------------------
(* Recovery of unprocessed log rows.                                       *)

Unprocessed(i) == i <= Len(logs) /\ ~logs[i].processed

Processed(i) == i <= Len(logs) /\ logs[i].processed

\* C6: every Razorpay Webhook Log row stored with processed = false is
\* eventually processed = true, the gateway redelivering the event and
\* workers and scheduled jobs running on.
C6_EventuallyProcessed ==
    \A i \in 1..MaxLogs : Unprocessed(i) ~> Processed(i)

----------------------------------------------------------------------------
(* Properties of the billing ledger's payment_status.                      *)

\* a step of charge_monthly_bill or of process_retry_charges
ChargeStep == \E c \in Charges : charges'[c] # charges[c]

\* C11: charge_monthly_bill never changes a ledger whose payment_status is
\* paid, whenever the payment.captured handler marked it paid, and a call
\* on a paid ledger sends nothing to the gateway.
C11_PaidUntouchedByCharge ==
    [][ChargeStep
       => /\ \A i \in 1..Len(billLedgers) :
                billLedgers[i].payment_status = "paid"
                => billLedgers'[i] = billLedgers[i]
          /\ \A c \in Charges :
                (/\ charges[c].pc \in {"idle", "sweep"}
                 /\ charges'[c].result = "already_paid")
                => gateway' = gateway]_vars

\* C12: paid and failed are final: no step takes a paid ledger to failed, no
\* step takes a failed ledger to paid, pending or retry, and a ledger
\* enters retry only by a charge attempt that failed at the gateway.
C12_TerminalStatuses ==
    [][\A i \in 1..Len(billLedgers) :
          /\ billLedgers[i].payment_status = "paid"
             => billLedgers'[i].payment_status # "failed"
          /\ billLedgers[i].payment_status = "failed"
             => billLedgers'[i].payment_status \notin {"paid", "pending", "retry"}
          /\ (/\ billLedgers[i].payment_status # "retry"
              /\ billLedgers'[i].payment_status = "retry")
             => \E c \in Charges : /\ charges[c].pc = "gateway"
                                   /\ charges[c].ledger = i
                                   /\ charges'[c].result = "retry"]_vars

----------------------------------------------------------------------------
(* Properties of the retries.                                              *)

\* call c's request to the gateway fails in this step
FailureStep(c) ==
    /\ charges[c].pc = "gateway"
    /\ charges'[c].pc # "gateway"
    /\ charges'[c].result = "retry"

\* call c's request to the gateway succeeds in this step
SuccessStep(c) ==
    /\ charges[c].pc = "gateway"
    /\ charges'[c].pc # "gateway"
    /\ charges'[c].result = "charged"

\* 2^k minutes, and 1440 minutes from the first k with 2^k > 1440 on
ClaimedDelay(k) == IF 2 ^ k < 1440 THEN 2 ^ k ELSE 1440

\* C13: when the calls come one after the other, the k-th failed attempt
\* on a ledger sets retry_count = k, payment_status = retry and
\* next_retry_at = now + min(2^k, 1440) minutes; the delay is at most 1440
\* and, while the one before was below 1440, greater than the one before.
C13_Backoff ==
    [][\A c \in Charges :
          FailureStep(c)
          => LET i == charges[c].ledger
                 k == billLedgers[i].retry_count + 1
                 delay == billLedgers'[i].next_retry_at - now
             IN  /\ billLedgers'[i].retry_count = k
                 /\ billLedgers'[i].payment_status = "retry"
                 /\ delay = ClaimedDelay(k)
                 /\ delay <= 1440
                 /\ (k > 1 /\ ClaimedDelay(k - 1) < 1440)
                    => delay > ClaimedDelay(k - 1)]_vars

\* the eleventh failure has set the capped delay
C13_Witness ==
    /\ charges[1].result = "retry"
    /\ \E i \in 1..Len(billLedgers) :
          /\ billLedgers[i].payment_status = "retry"
          /\ billLedgers[i].retry_count = 11
          /\ billLedgers[i].next_retry_at = now + 1440

\* C14: on a ledger with retry_count 0 whose restaurant has customer id and
\* token, the first attempt failing at the gateway gives retry_count 1 and
\* a delay of 2 minutes, the second retry_count 2 and 4 minutes, both with
\* payment_status retry; the third attempt succeeding records the payment
\* id the gateway returned and sets pending, retry_count staying 2; and the
\* payment.captured event carrying that payment id sets paid.
C14_RechargeScenario ==
    [][/\ \A c \in Charges : \A n \in {1, 2} :
             (/\ FailureStep(c)
              /\ Len(gateway) = n
              /\ billLedgers[charges[c].ledger].retry_count = n - 1)
             => LET i == charges[c].ledger
                IN  /\ billLedgers'[i].retry_count = n
                    /\ billLedgers'[i].next_retry_at = now + 2 * n
                    /\ billLedgers'[i].payment_status = "retry"
       /\ \A c \in Charges :
             (/\ SuccessStep(c)
              /\ Len(gateway) = 3
              /\ billLedgers[charges[c].ledger].retry_count = 2)
             => LET i == charges[c].ledger
                IN  /\ billLedgers'[i].razorpay_payment_id = PaymentIds[3]
                    /\ billLedgers'[i].payment_status = "pending"
                    /\ billLedgers'[i].retry_count = 2
       /\ \A j \in 1..Len(jobs) :
             (/\ RunsHandler(j)
              /\ PayloadOf(j).event = "payment.captured"
              /\ LedgersByPayment(PayloadOf(j).payment_id) # {})
             => LET i == First(LedgersByPayment(PayloadOf(j).payment_id))
                IN  /\ billLedgers'[i].payment_status = "paid"
                    /\ billLedgers'[i].retry_count = billLedgers[i].retry_count
                    /\ billLedgers'[i].razorpay_payment_id =
                           PayloadOf(j).payment_id]_vars

\* the scenario has run to its end: failures at minute 0 and at minute 2,
\* the third request charged and its payment captured
C14_Witness ==
    /\ Len(gateway) = 3
    /\ \E j \in 1..Len(jobs) : /\ jobs[j].pc = "done"
                               /\ PayloadOf(j).payment_id = PaymentIds[3]
    /\ \E i \in 1..Len(billLedgers) :
          /\ billLedgers[i].payment_status = "paid"
          /\ billLedgers[i].retry_count = 2
          /\ billLedgers[i].next_retry_at = 6
          /\ billLedgers[i].razorpay_payment_id = PaymentIds[3]

----------------------------------------------------------------------------
(* Properties of the amounts.                                              *)

\* fee is the whole part of one hundredth of total_gmv
IsFloorOfOnePercent(fee, total_gmv) ==
    /\ fee * 100 <= total_gmv
    /\ total_gmv < (fee + 1) * 100

\* C15: every stored Monthly Billing Ledger with total_gmv >= 0, created by
\* a creation job or saved with a new total_gmv, has calculated_fee =
\* floor(total_gmv * 1%) and final_amount = calculated_fee brought into
\* [99900, 399900].
C15_FeeAndFinalAmount ==
    \A i \in 1..Len(billLedgers) :
        billLedgers[i].total_gmv >= 0
        => /\ IsFloorOfOnePercent(billLedgers[i].calculated_fee,
                                  billLedgers[i].total_gmv)
           /\ billLedgers[i].final_amount >= 99900
           /\ billLedgers[i].final_amount <= 399900
           /\ billLedgers[i].calculated_fee < 99900
              => billLedgers[i].final_amount = 99900
           /\ billLedgers[i].calculated_fee > 399900
              => billLedgers[i].final_amount = 399900
           /\ billLedgers[i].calculated_fee \in 99900..399900
              => billLedgers[i].final_amount = billLedgers[i].calculated_fee

\* a job created the month's ledger from sales above the maximum, and an
\* update has since stored a total_gmv whose hundredth is not whole and
\* lies between minimum and maximum
C15_Witness ==
    /\ \A o \in OrderIds : orders[o].total = 500000
    /\ creators[1].created = 1
    /\ \E i \in 1..Len(billLedgers) :
          /\ billLedgers[i].billing_month = CurrentMonth
          /\ billLedgers[i].total_gmv = 25000050
          /\ billLedgers[i].calculated_fee = 250000
          /\ billLedgers[i].final_amount = 250000

----------------------------------------------------------------------------
(* Properties of the refunds and of the Order's payment_status.            *)

\* job j processes a refund.processed event, the handler finding Order o by
\* the payment id and returning without an exception
RefundsOrder(j, o) ==
    /\ RunsHandler(j)
    /\ PayloadOf(j).event = "refund.processed"
    /\ orders[o].razorpay_payment_id = PayloadOf(j).payment_id
    /\ jobs'[j].result.status = "success"

C18_RefundOnlyAfterCompleted ==
    [][\A o \in OrderIds :
          /\ (/\ orders'[o].payment_status = "refunded"
              /\ orders[o].payment_status # "refunded")
             => orders[o].payment_status \in {"completed", "partially_refunded"}
          /\ orders'[o].payment_status = "partially_refunded"
             => orders[o].payment_status # "pending"]_vars

\* C19: once the payment_status of an Order is completed, it is never
\* pending again, whatever payment.captured and payment.failed events
\* process_webhook_log processes.
C19_CompletedNotReopened ==
    \A o \in OrderIds :
        [](orders[o].payment_status = "completed"
           => [](orders[o].payment_status # "pending"))

\* job j has processed an event of kind `event` for payment `payment_id`
Handled(j, event, payment_id) ==
    /\ jobs[j].invoked
    /\ PayloadOf(j).event = event
    /\ PayloadOf(j).payment_id = payment_id

\* payment.failed and payment.captured of the Order's payment were
\* processed after the Order was completed
C19_Witness ==
    \E o \in OrderIds :
        /\ orders[o].payment_status = "completed"
        /\ orders[o].razorpay_payment_id # None
        /\ \E j, k \in 1..Len(jobs) :
              /\ Handled(j, "payment.failed", orders[o].razorpay_payment_id)
              /\ Handled(k, "payment.captured", orders[o].razorpay_payment_id)

----------------------------------------------------------------------------
(* Properties of the tokenization.                                         *)

\* p is a payment.captured event of a tokenization: its notes carry the
\* type tokenization or an attempt id
TokenizationCapture(p) ==
    /\ p.event = "payment.captured"
    /\ (p.notes_type = "tokenization" \/ p.notes_attempt_id # None)

\* C20: processing a tokenization payment.captured event for an existing
\* Tokenization Attempt stores payment id, customer id and token of the
\* event on the attempt with status captured and processed 1, and stores
\* customer id and token on the Restaurant of the attempt with
\* mandate_status active.
C20_TokenizationCaptured ==
    [][\A j \in 1..Len(jobs) :
          (/\ RunsHandler(j)
           /\ TokenizationCapture(PayloadOf(j))
           /\ FindAttempt(PayloadOf(j)) # None)
          => LET p == PayloadOf(j)
                 a == FindAttempt(p)
                 r == attempts[a].restaurant
             IN  /\ attempts'[a].razorpay_payment_id = p.payment_id
                 /\ attempts'[a].customer_id = p.customer_id
                 /\ attempts'[a].token_id = p.token
                 /\ attempts'[a].status = "captured"
                 /\ attempts'[a].processed = 1
                 /\ restaurants'[r].razorpay_customer_id = p.customer_id
                 /\ restaurants'[r].razorpay_token_id = p.token
                 /\ restaurants'[r].mandate_status = "active"]_vars

\* C21: a Restaurant whose mandate_status is active keeps it active in
\* every step, whatever payment.captured events are processed.
C21_MandateStaysActive ==
    [][\A r \in RestaurantIds :
          restaurants[r].mandate_status = "active"
          => restaurants'[r].mandate_status = "active"]_vars

\* the mandate was made active by one tokenization payment and a second
\* one, with another token, was processed after it
C21_Witness ==
    /\ \E j, k \in 1..Len(jobs) :
          /\ jobs[j].invoked /\ PayloadOf(j) = CapturedToken
          /\ jobs[k].invoked /\ PayloadOf(k) = CapturedTokenAgain
    /\ \A r \in RestaurantIds : /\ restaurants[r].mandate_status = "active"
                                /\ restaurants[r].razorpay_token_id = "tok2"

\* C22: once customer_id (token_id) of a Tokenization Attempt is set, no
\* step changes it.
C22_TokenWrittenOnce ==
    [][\A a \in AttemptIds :
          /\ attempts[a].customer_id # None
             => attempts'[a].customer_id = attempts[a].customer_id
          /\ attempts[a].token_id # None
             => attempts'[a].token_id = attempts[a].token_id]_vars

----------------------------------------------------------------------------
(* Properties of charge_monthly_bill.                                      *)

\* the restaurant of ledger i has no customer id or no token
LacksToken(i) ==
    /\ billLedgers[i].restaurant \in RestaurantIds
    /\ \/ restaurants[billLedgers[i].restaurant].razorpay_customer_id = None
       \/ restaurants[billLedgers[i].restaurant].razorpay_token_id = None

\* C23: charge_monthly_bill on a ledger whose Restaurant lacks customer id
\* or token, called directly or by the retry sweep, returns an error, sends
\* nothing to the gateway and leaves every ledger as it is.
C23_FailsFastWithoutToken ==
    [][\A c \in Charges : \A i \in 1..Len(billLedgers) :
          (/\ LacksToken(i)
           /\ \/ ChargeCall(c, i)
              \/ SweepNext(c) /\ Head(charges[c].todo) = i)
          => /\ charges'[c].result \in {"missing_token", "already_paid"}
             /\ billLedgers[i].payment_status # "paid"
                => charges'[c].result = "missing_token"
             /\ charges'[c].pc # "gateway"
             /\ gateway' = gateway
             /\ billLedgers' = billLedgers]_vars

\* a direct call has returned the error, the restaurant having a customer
\* id and no token, and the ledger is as it was created
C23_Witness ==
    /\ \E c \in Charges : /\ charges[c].pc = "done"
                          /\ ~charges[c].sweep
                          /\ charges[c].result = "missing_token"
    /\ gateway = <<>>
    /\ \A r \in RestaurantIds : /\ restaurants[r].razorpay_customer_id # None
                                /\ restaurants[r].razorpay_token_id = None
    /\ \E i \in 1..Len(billLedgers) :
          billLedgers[i] = NewBillLedger("R1", PreviousMonth, 0, 0, MinAmount)


\* C24: a run of a ledger-creation job that comes after the ledger of a
\* restaurant and month was stored skips that restaurant: there is never a
\* second row for the pair, the run builds no document for it, and no step
\* of a run changes a row that is stored.
C24_RerunIsIdempotent ==
    /\ [](\A r \in RestaurantIds : \A month \in {CurrentMonth, PreviousMonth} :
             Cardinality(RowsOf(r, month)) <= 1)
    /\ [](\A c \in Creators :
             creators[c].pc \in {"validate", "db_insert"}
             => RowsOf(creators[c].doc.restaurant,
                       creators[c].doc.billing_month) = {})
    /\ [][creators' # creators
          => \A i \in 1..Len(billLedgers) : billLedgers'[i] = billLedgers[i]]_vars

\* schedule_monthly_billing has run over an active restaurant whose ledger
\* of the month is stored, and has returned success having created nothing
C24_Witness ==
    /\ creators[1].pc = "done"
    /\ creators[1].job = ScheduleJob
    /\ creators[1].result = "success"
    /\ creators[1].created = 0
    /\ restaurants["R1"].is_active
    /\ RowsOf("R1", CurrentMonth) # {}
    /\ RowsOf("R1", PreviousMonth) # {}


----------------------------------------------------------------------------
(* Properties of the choice of the webhook secret.                         *)

\* the webhook secret of the restaurant with the account id, None without one
SecretOfAccount(account_id) ==
    IF \E r \in DOMAIN restaurants :
          restaurants[r].razorpay_account_id = account_id
    THEN restaurants[CHOOSE r \in DOMAIN restaurants :
             restaurants[r].razorpay_account_id = account_id].razorpay_webhook_secret
    ELSE None

\* the webhook secret of the named restaurant, None without one
SecretOfRestaurant(name) ==
    IF name \in DOMAIN restaurants
    THEN restaurants[name].razorpay_webhook_secret
    ELSE None

\* the precedence among the three secrets
SecretByPrecedence(body) ==
    IF body.account_id # None /\ SecretOfAccount(body.account_id) # None
    THEN SecretOfAccount(body.account_id)
    ELSE IF SecretOfRestaurant(body.notes_restaurant_id) # None
    THEN SecretOfRestaurant(body.notes_restaurant_id)
    ELSE siteSecret

\* C25: a request is accepted exactly when it is signed with the secret of
\* the restaurant of its account_id, else with that of the restaurant of
\* the payment notes, else with the site-wide secret; so a request signed
\* with the site-wide secret is rejected when its payload identifies a
\* restaurant with a secret of its own.
C25_SecretPrecedence ==
    \A d \in Deliveries :
        deliveries[d].pc # "idle" =>
            /\ deliveries[d].result = "rejected"
               <=> deliveries[d].signature #
                       Hmac(SecretByPrecedence(deliveries[d].body), deliveries[d].body)
            /\ (/\ deliveries[d].signature = Hmac(siteSecret, deliveries[d].body)
                /\ \/ SecretOfAccount(deliveries[d].body.account_id) # None
                   \/ SecretOfRestaurant(deliveries[d].body.notes_restaurant_id) # None)
               => deliveries[d].result = "rejected"

\* the account_id names R1 and the notes name R2, each with a secret of its
\* own: the request signed with the secret of R1 was logged and the one
\* signed with the site secret was rejected
C25_Witness ==
    \E d1, d2 \in Deliveries :
        /\ deliveries[d1].body.account_id = "acc1"
        /\ deliveries[d1].body.notes_restaurant_id = "R2"
        /\ restaurants["R1"].razorpay_webhook_secret = MerchantSecretValue
        /\ restaurants["R2"].razorpay_webhook_secret = SecondSecretValue
        /\ deliveries[d1].signature = Hmac(MerchantSecretValue, deliveries[d1].body)
        /\ deliveries[d1].inserted
        /\ deliveries[d2].signature = Hmac(SiteSecretValue, deliveries[d2].body)
        /\ deliveries[d2].result = "rejected"

----------------------------------------------------------------------------
(* Properties of get_or_create_customer.                                   *)

\* the Customers stored under the canonical form of phone
HoldersOf(phone) ==
    {i \in 1..Len(customers) :
        canonical_phone(customers[i].phone) = canonical_phone(phone)}

\* C26: there is at most one Customer per canonical phone, and a call of
\* get_or_create_customer with a valid phone of which a Customer is stored
\* creates none: it returns that Customer, its customer_name being the
\* supplied name when one was supplied.
C26_OneCustomerPerPhone ==
    /\ [](\A i, k \in 1..Len(customers) :
             canonical_phone(customers[i].phone) = canonical_phone(customers[k].phone)
             => i = k)
    /\ [][\A i \in 1..Len(customers) :
             (/\ lastCall' # lastCall
              /\ Len(canonical_phone(lastCall'.phone)) = 10
              /\ i \in HoldersOf(lastCall'.phone))
             => /\ lastCall'.result = "customer"
                /\ lastCall'.customer = i
                /\ Len(customers') = Len(customers)
                /\ lastCall'.name # None
                   => customers'[i].customer_name = lastCall'.name]_vars

\* the Customer stored as "+91 7487871213" was returned to a call that
\* supplied the name Test User, and is now stored under 7487871213
C26_Witness ==
    /\ lastCall.result = "customer"
    /\ lastCall.customer = 1
    /\ lastCall.name = "Test User"
    /\ Len(customers) = 2
    /\ customers[1] = [phone |-> <<"7", "4", "8", "7", "8", "7", "1", "2", "1", "3">>,
                       customer_name |-> "Test User", email |-> ""]


----------------------------------------------------------------------------
(* Properties of overlapping charges.                                      *)

\* C27: a failed charge_monthly_bill raises the stored retry_count of its
\* ledger by one, whatever other calls did since it loaded the ledger, so
\* that two overlapping failures raise it by two.
C27_NoLostRetry ==
    [][\A c \in Charges :
          FailureStep(c)
          => billLedgers'[charges[c].ledger].retry_count =
                 billLedgers[charges[c].ledger].retry_count + 1]_vars


----------------------------------------------------------------------------
(* Properties of events that refer to nothing stored.                      *)

\* the document the event refers to is not found: no Order with the payment
\* id of the refund, no billing ledger with the id of the failed payment
Unresolved(p) ==
    \/ /\ p.event = "refund.processed"
       /\ \A o \in OrderIds : orders[o].razorpay_payment_id # p.payment_id
    \/ /\ p.event = "payment.failed"
       /\ LedgersByPayment(p.payment_id) = {}

\* C28: when the handler finds no document for the event it returns an
\* error result, and process_webhook_log stores that result in the row it
\* marks processed.
C28_UnresolvedIsError ==
    /\ [][\A j \in 1..Len(jobs) :
             (RunsHandler(j) /\ Unresolved(PayloadOf(j)))
             => jobs'[j].result.status = "error"]_vars
    /\ [][\A j \in 1..Len(jobs) :
             (jobs[j].pc = "handled" /\ jobs'[j].pc = "done")
             => /\ logs'[jobs[j].log].processed
                /\ logs'[jobs[j].log].processing_result = jobs[j].result]_vars


----------------------------------------------------------------------------
(* Properties of the enqueue.                                              *)

\* C29: a request enqueues process_webhook_log only when it has stored its
\* log row, every job names a stored row, and no row has two jobs.
C29_EnqueueOnlyPersisted ==
    /\ \A d \in Deliveries : deliveries[d].enqueued => deliveries[d].inserted
    /\ \A j \in 1..Len(jobs) : jobs[j].log \in 1..Len(logs)
    /\ \A i \in 1..Len(logs) :
          Cardinality({j \in 1..Len(jobs) : jobs[j].log = i}) <= 1


\* C30: process_retry_charges sends a charge to the gateway only for a
\* ledger that is in retry and due when it is charged, and while a run of
\* it has a charge for a ledger at the gateway no other run or call has one
\* for the same ledger.
C30_OneChargePerRetry ==
    /\ [][\A c \in Charges :
             (/\ charges[c].pc = "sweep"
              /\ charges'[c].pc = "gateway")
             => /\ billLedgers[charges'[c].ledger].payment_status = "retry"
                /\ billLedgers[charges'[c].ledger].next_retry_at <= now]_vars
    /\ [](\A c1, c2 \in Charges :
             (/\ c1 # c2
              /\ charges[c1].sweep
              /\ charges[c1].pc = "gateway"
              /\ charges[c2].pc = "gateway")
             => charges[c1].ledger # charges[c2].ledger)

====
